---- MODULE Spec2Model ----
(***************************************************************************)
(* Contact-manifold maintenance of edyn: the narrowphase (serial and       *)
(* parallel path) and the broadphase pair table, modelled from             *)
(* src/src/edyn/collision/narrowphase.cpp.                                 *)
(*                                                                         *)
(* Lengths are integers in units of 0.01, so that                          *)
(* contact_breaking_threshold (0.02) is 2.  Orientations are the identity, *)
(* so rotate(orn, v) = v and a pose is a position.  Entities are positive  *)
(* integers handed out by a counter (entt never hands out the same         *)
(* identifier twice: a recycled index carries a new version); 0 is         *)
(* entt::null.                                                             *)
(***************************************************************************)
EXTENDS Integers, Sequences, FiniteSets, TLC

VARIABLES
    registry,                 \* [cp, manifold, next, dirty]: the components the core uses
    pos,                      \* body -> position
    material,                 \* body -> whether it carries a material
    aabb,                     \* body -> AABB, or NoAABB
    relations,                \* broadphase pair table: <<e0, e1>> -> manifold entity
    m_cp_construction_infos,  \* per manifold index: buffered new points
    m_cp_destruction_infos,   \* per manifold index: buffered pruned handles
    pc,                       \* "idle" | "async" | "joined" | "done"
    result,                   \* per manifold index: what collide returns this step
    finished,                 \* indices whose worker iteration has run
    access,                   \* per manifold index: [rd, wr] locations touched
    serial_ref,               \* what narrowphase::update gives from the dispatch state
    step_log,                 \* the entity creations and destructions of the last step
    path,                     \* "none" | "serial" | "parallel": how the last step ran
    steps,                    \* the number of steps begun
    observed,                 \* what the call under observation observed or returned
    m_delta_builder,          \* the island_delta_builder of the worker context
    sent,                     \* the island_delta send_delta sent last
    recorded,                 \* recording calls on the builder since its last finish()
    history,                  \* the component changes recorded since the last finish()
    m_pending_flush,          \* the pending-flush flag of the worker context
    reschedules,              \* calls of m_worker->reschedule() so far
    since_set,                \* those of them since the flag was last set
    alive,                    \* whether the worker context exists
    sinks,                    \* the sinks a handler of the context is connected to
    m_message_queue,          \* the messages waiting in the queue, by sink
    invoked                   \* <<sink, alive>>: handlers invoked, and whether the context existed

vars == <<registry, pos, material, aabb, relations, m_cp_construction_infos,
          m_cp_destruction_infos, pc, result, finished, access, serial_ref,
          step_log, path, steps, observed, m_delta_builder, sent, recorded, history,
          m_pending_flush, reschedules, since_set, alive, sinks, m_message_queue,
          invoked>>

\* The delta builder of the island_worker_context and what it sent.
delta_vars == <<m_delta_builder, sent, recorded, history>>

\* The flag, the worker and the message queue of the island_worker_context.
queue_vars == <<m_pending_flush, reschedules, since_set, alive, sinks,
                m_message_queue, invoked>>

\* The state of the island_worker_context.
ctx_vars == <<delta_vars, queue_vars>>

----------------------------------------------------------------------------
(* Program constants *)

max_contacts == 4

contact_breaking_threshold == 2

contact_caching_threshold == 2

offset_scale == 2

Null == 0

NoAABB == [none |-> TRUE]

----------------------------------------------------------------------------
(* Bounds of the model *)

MaxResult == 2

----------------------------------------------------------------------------
(* vector3 *)

VAdd(a, b) == <<a[1] + b[1], a[2] + b[2], a[3] + b[3]>>

VSub(a, b) == <<a[1] - b[1], a[2] - b[2], a[3] - b[3]>>

VScale(k, a) == <<k * a[1], k * a[2], k * a[3]>>

dot(a, b) == a[1] * b[1] + a[2] * b[2] + a[3] * b[3]

length_sqr(a) == dot(a, a)

Abs(x) == IF x < 0 THEN -x ELSE x

Max2(x, y) == IF x >= y THEN x ELSE y

\* 2D cross product of the projections on the contact plane is not enough in
\* 3D: the squared length of the 3D cross product.
cross_sqr(a, b) ==
    LET c == <<a[2] * b[3] - a[3] * b[2],
               a[3] * b[1] - a[1] * b[3],
               a[1] * b[2] - a[2] * b[1]>>
    IN  length_sqr(c)

----------------------------------------------------------------------------
(* AABB *)

inset(b, v) == [min |-> VAdd(b.min, v), max |-> VSub(b.max, v)]

intersect(b0, b1) ==
    \A k \in 1..3 : b0.min[k] <= b1.max[k] /\ b0.max[k] >= b1.min[k]

----------------------------------------------------------------------------
(* contact_manifold *)

Slots == 0..(max_contacts - 1)

EmptyPoints == [k \in Slots |-> Null]

\* contact_manifold::num_points(): the number of slots that hold a handle.
num_points(m) == Cardinality({k \in Slots : m.point[k] # Null})

\* The manifolds in the order of the contact_manifold view: view[i].
manifold_view(reg) ==
    LET RECURSIVE Sorted(_)
        Sorted(S) == IF S = {} THEN <<>>
                     ELSE LET x == CHOOSE y \in S : \A z \in S : y <= z
                          IN  <<x>> \o Sorted(S \ {x})
    IN  Sorted(DOMAIN reg.manifold)

Indices(reg) == 0..(Len(manifold_view(reg)) - 1)

----------------------------------------------------------------------------
(* Locations, for the accounting of what an iteration reads and writes *)

LocCp(e) == <<"contact_point", e>>

LocRow(e) == <<"constraint_row", e>>

LocManifold(m) == <<"contact_manifold", m>>

LocPose(b) == <<"pose", b>>

LocAABB(b) == <<"aabb", b>>

LocNew(i) == <<"new_points", i>>

LocDestroyed(i) == <<"destroyed_points", i>>

Read(s, L) == [s EXCEPT !.rd = @ \cup L]

Wrote(s, L) == [s EXCEPT !.wr = @ \cup L]

----------------------------------------------------------------------------
(* The per-manifold pipeline.  It works on a record s:                     *)
(*   cp, manifold, next : the registry                                     *)
(*   cinfo, dinfo       : the buffer slots of the iteration (parallel)     *)
(*   rd, wr             : the locations read and written                   *)
(*   log                : entity creations and destructions, in order      *)
(*   seen               : the point entities prune evaluated, in order     *)

\* update_contact_distances: every contact point of the registry.
update_contact_distances(reg) ==
    [reg EXCEPT !.cp =
        [e \in DOMAIN reg.cp |->
            LET c == reg.cp[e]
                pivotA_world == VAdd(pos[c.body[1]], c.pivotA)
                pivotB_world == VAdd(pos[c.body[2]], c.pivotB)
                normal_world == c.normalB
            IN  [c EXCEPT !.distance =
                    dot(normal_world, VSub(pivotA_world, pivotB_world))]]]

merge_point(rp, c) ==
    [c EXCEPT !.pivotA = rp.pivotA, !.pivotB = rp.pivotB,
              !.normalB = rp.normalB, !.distance = rp.distance]

\* A faulty variant of find_nearest_loop: a point at the same distance as the
\* nearest so far takes its place.
RECURSIVE find_nearest_loop_ties_last(_, _, _, _, _, _)
find_nearest_loop_ties_last(m, coll_pt, cp, i, shortest_dist, nearest_idx) ==
    IF i >= num_points(m) THEN nearest_idx
    ELSE LET c  == cp[m.point[i]]
             dA == length_sqr(VSub(coll_pt.pivotA, c.pivotA))
             dB == length_sqr(VSub(coll_pt.pivotB, c.pivotB))
             near == (dA < contact_caching_threshold * contact_caching_threshold
                      /\ dA <= shortest_dist)
                     \/ (dB < contact_caching_threshold * contact_caching_threshold
                         /\ dB <= shortest_dist)
             s2 == IF near THEN (IF dA < dB THEN dA ELSE dB) ELSE shortest_dist
             n2 == IF near THEN i ELSE nearest_idx
         IN  find_nearest_loop_ties_last(m, coll_pt, cp, i + 1, s2, n2)

RECURSIVE find_nearest_loop(_, _, _, _, _, _)
find_nearest_loop(m, coll_pt, cp, i, shortest_dist, nearest_idx) ==
    IF i >= num_points(m) THEN nearest_idx
    ELSE LET c  == cp[m.point[i]]
             dA == length_sqr(VSub(coll_pt.pivotA, c.pivotA))
             dB == length_sqr(VSub(coll_pt.pivotB, c.pivotB))
             s1 == IF dA < shortest_dist THEN dA ELSE shortest_dist
             n1 == IF dA < shortest_dist THEN i ELSE nearest_idx
             s2 == IF dB < s1 THEN dB ELSE s1
             n2 == IF dB < s1 THEN i ELSE n1
         IN  find_nearest_loop(m, coll_pt, cp, i + 1, s2, n2)

find_nearest_contact(m, coll_pt, cp) ==
    find_nearest_loop(m, coll_pt, cp, 0,
                      contact_caching_threshold * contact_caching_threshold,
                      num_points(m))

\* The area spanned by four points: the largest of the three ways of pairing
\* them into diagonals (squared, which orders areas as the areas themselves).
area_4_points(p0, p1, p2, p3) ==
    Max2(cross_sqr(VSub(p0, p1), VSub(p2, p3)),
         Max2(cross_sqr(VSub(p0, p2), VSub(p1, p3)),
              cross_sqr(VSub(p0, p3), VSub(p1, p2))))

\* insert_index: num_points below capacity; else the slot whose replacement
\* gives the largest area, never the deepest point if it is deeper than the new
\* one; max_contacts when no replacement improves the area.
insert_index(pivots, distances, n, new_point, new_depth) ==
    IF n < max_contacts THEN n
    ELSE LET current == area_4_points(pivots[0], pivots[1], pivots[2], pivots[3])
             With(k) == [j \in Slots |-> IF j = k THEN new_point ELSE pivots[j]]
             Area(k) == LET q == With(k)
                        IN  area_4_points(q[0], q[1], q[2], q[3])
             Keeps(k) == /\ distances[k] < new_depth
                         /\ \A j \in Slots \ {k} : distances[j] > distances[k]
             Cand == {k \in Slots : ~Keeps(k)}
         IN  IF Cand = {} THEN max_contacts
             ELSE LET best == CHOOSE k \in Cand :
                                \A j \in Cand : \/ Area(k) > Area(j)
                                                \/ Area(k) = Area(j) /\ k <= j
                  IN  IF Area(best) > current THEN best ELSE max_contacts

\* The material a body carries when it carries one.
material_of(b) == [restitution |-> 1, friction |-> 2]

\* create_contact_constraint: restitution and friction from the two materials;
\* make_constraint gives the contact its constraint and rows, with no
\* accumulated impulse.
create_contact_constraint(c) ==
    LET materialA == material_of(c.body[1])
        materialB == material_of(c.body[2])
    IN  [c EXCEPT !.restitution = materialA.restitution * materialB.restitution,
                  !.friction = materialA.friction * materialB.friction,
                  !.con = TRUE, !.impulse = 0]

\* The marks of a dirty component: which entity, what happened, to which
\* component kind.
Dirty(entity, marks) == {<<entity, mk[1], mk[2]>> : mk \in marks}

\* registry.destroy(entity) takes the dirty component of the entity with it.
drop_dirty(dirty, entity) == {d \in dirty : d[1] # entity}

\* A faulty variant of has_materials: one material is enough.
has_materials_either(m) == material[m.body[1]] \/ material[m.body[2]]

\* create_contact_point's test before create_contact_constraint.
has_materials(m) == material[m.body[1]] /\ material[m.body[2]]

create_contact_point(s, manifold_entity, rp) ==
    LET m   == s.manifold[manifold_entity]
        idx == num_points(m)
    IN  IF idx >= max_contacts THEN s
        ELSE LET contact_entity == s.next
                 c0 == [body |-> m.body, pivotA |-> rp.pivotA,
                        pivotB |-> rp.pivotB, normalB |-> rp.normalB,
                        friction |-> 0, restitution |-> 0,
                        lifetime |-> 0, distance |-> rp.distance,
                        con |-> FALSE, impulse |-> 0]
                 c  == IF has_materials(m)
                       THEN create_contact_constraint(c0) ELSE c0
             IN  [s EXCEPT
                    !.next = @ + 1,
                    !.manifold[manifold_entity].point[idx] = contact_entity,
                    !.cp = [e \in DOMAIN s.cp \cup {contact_entity} |->
                               IF e = contact_entity THEN c ELSE s.cp[e]],
                    !.dirty = @ \cup Dirty(contact_entity,
                                           {<<"new", "entity">>,
                                            <<"created", "contact_point">>})
                                \cup Dirty(manifold_entity,
                                           {<<"updated", "contact_manifold">>}),
                    !.log = Append(@, <<"create", manifold_entity, contact_entity>>)]

destroy_contact_point(s, manifold_entity, contact_entity) ==
    [s EXCEPT
        !.cp = [e \in DOMAIN s.cp \ {contact_entity} |-> s.cp[e]],
        !.dirty = drop_dirty(@, contact_entity)
                    \cup Dirty(manifold_entity,
                               {<<"updated", "contact_manifold">>,
                                <<"updated", "island_node_parent">>}),
        !.log = Append(@, <<"destroy", manifold_entity, contact_entity>>)]

\* A faulty variant of new_point_func: the iteration creates the contact point itself
\* instead of recording the incoming point.
new_point_func_creates(s, mode, index, manifold_entity, rp) ==
    create_contact_point(s, manifold_entity, rp)

\* The callback process_collision is given: process_result creates the contact
\* point at once ("create"), the worker iteration of update_async records the
\* incoming point in its construction_info ("record").
new_point_func(s, mode, index, manifold_entity, rp) ==
    IF mode = "create"
    THEN create_contact_point(s, manifold_entity, rp)
    ELSE Wrote([s EXCEPT !.cinfo = Append(@, rp)], {LocNew(index)})

\* The callback prune is given: destroy_contact_point, or recording the handle
\* in the iteration's destruction_info.
destroy_point_func(s, mode, index, manifold_entity, contact_entity) ==
    IF mode = "create"
    THEN destroy_contact_point(s, manifold_entity, contact_entity)
    ELSE Wrote([s EXCEPT !.dinfo = Append(@, contact_entity)], {LocDestroyed(index)})

\* A faulty variant of merge_existing: the merge also clears the impulse the
\* rows accumulated.
merge_existing_resets_impulse(c, rp) ==
    [merge_point(rp, [c EXCEPT !.lifetime = @ + 1]) EXCEPT !.impulse = 0]

\* process_collision, the incoming point matches contact point c: one more
\* step of lifetime, then merge_point.
merge_existing(c, rp) == merge_point(rp, [c EXCEPT !.lifetime = @ + 1])

\* A faulty variant of replace_existing: the rows keep their impulse.
replace_existing_keeps_impulse(c, rp) == merge_point(rp, [c EXCEPT !.lifetime = 0])

\* process_collision, the incoming point replaces contact point c: lifetime 0,
\* merge_point, and the impulse of every row of its constraint zeroed.
replace_existing(c, rp) ==
    [merge_point(rp, [c EXCEPT !.lifetime = 0]) EXCEPT !.impulse = 0]

\* One incoming point rp of process_collision's loop.
process_point(s, mode, index, manifold_entity, rp) ==
    LET m  == s.manifold[manifold_entity]
        n  == num_points(m)
        held == {m.point[k] : k \in {j \in Slots : j < n}}
        s0 == Read(s, {LocManifold(manifold_entity)} \cup {LocCp(e) : e \in held})
        nearest_idx == find_nearest_contact(m, rp, s.cp)
    IN  IF nearest_idx < n
        THEN LET e == m.point[nearest_idx]
             IN  Wrote([s0 EXCEPT !.cp[e] = merge_existing(@, rp)], {LocCp(e)})
        ELSE LET pivots    == [k \in Slots |->
                                 IF k < n THEN s.cp[m.point[k]].pivotB ELSE <<0, 0, 0>>]
                 distances == [k \in Slots |->
                                 IF k < n THEN s.cp[m.point[k]].distance ELSE 0]
                 idx0 == insert_index(pivots, distances, n, rp.pivotB, rp.distance)
                 idx  == IF idx0 >= n
                         THEN insert_index(pivots, distances, n, rp.pivotB, rp.distance)
                         ELSE idx0
             IN  IF idx < max_contacts
                 THEN IF idx = n
                      THEN new_point_func(s0, mode, index, manifold_entity, rp)
                      ELSE LET contact_entity == m.point[idx]
                           IN  Wrote([s0 EXCEPT !.cp[contact_entity] =
                                        replace_existing(@, rp)],
                                     {LocCp(contact_entity), LocRow(contact_entity)})
                 ELSE s0

RECURSIVE process_collision_loop(_, _, _, _, _, _)
process_collision_loop(s, mode, index, manifold_entity, res, i) ==
    IF i >= Len(res) THEN s
    ELSE process_collision_loop(
            process_point(s, mode, index, manifold_entity, res[i + 1]),
            mode, index, manifold_entity, res, i + 1)

process_collision(s, mode, index, manifold_entity, res) ==
    process_collision_loop(s, mode, index, manifold_entity, res, 0)

\* A faulty variant of separating: only the separation along the normal is
\* tested.
separating_normal_only(c, posA, posB) ==
    LET pA == VAdd(posA, c.pivotA)
        pB == VAdd(posB, c.pivotB)
        dn == dot(VSub(pA, pB), c.normalB)
    IN  dn > contact_breaking_threshold

\* Whether prune removes contact point c of a manifold of bodies at posA, posB.
separating(c, posA, posB) ==
    LET threshold_sqr == contact_breaking_threshold * contact_breaking_threshold
        pA == VAdd(posA, c.pivotA)
        pB == VAdd(posB, c.pivotB)
        n  == c.normalB
        d  == VSub(pA, pB)
        dn == dot(d, n)
        dp == VSub(d, VScale(dn, n))
    IN  dn > contact_breaking_threshold \/ length_sqr(dp) > threshold_sqr

\* A faulty variant of prune_point: the slot is emptied without moving the last point
\* into it.
prune_point_no_swap(s, mode, index, manifold_entity, k) ==
    LET m  == s.manifold[manifold_entity]
        point_entity == m.point[k]
    IN  IF separating(s.cp[point_entity], pos[m.body[1]], pos[m.body[2]])
        THEN destroy_point_func(
                [s EXCEPT !.manifold[manifold_entity].point[k] = Null],
                mode, index, manifold_entity, point_entity)
        ELSE s

\* One turn of prune's loop, at slot k.
prune_point(s, mode, index, manifold_entity, k) ==
    LET m  == s.manifold[manifold_entity]
        point_entity == m.point[k]
        c  == s.cp[point_entity]
        s0 == Read([s EXCEPT !.seen = Append(@, point_entity)],
                   {LocManifold(manifold_entity), LocCp(point_entity),
                    LocPose(m.body[1]), LocPose(m.body[2])})
    IN  IF separating(c, pos[m.body[1]], pos[m.body[2]])
        THEN LET last_idx == num_points(m) - 1
                 p1 == IF last_idx # k
                       THEN [m.point EXCEPT ![k] = m.point[last_idx]]
                       ELSE m.point
                 p2 == [p1 EXCEPT ![last_idx] = Null]
                 s1 == Wrote([s0 EXCEPT !.manifold[manifold_entity].point = p2],
                             {LocManifold(manifold_entity)})
             IN  destroy_point_func(s1, mode, index, manifold_entity, point_entity)
        ELSE s0

RECURSIVE prune_loop(_, _, _, _, _)
prune_loop(s, mode, index, manifold_entity, i) ==
    IF i <= 0 THEN s
    ELSE prune_loop(prune_point(s, mode, index, manifold_entity, i - 1),
                    mode, index, manifold_entity, i - 1)

prune(s, mode, index, manifold_entity) ==
    prune_loop(s, mode, index, manifold_entity,
               num_points(s.manifold[manifold_entity]))

\* A faulty variant of detect_collision: collide is called without the broad
\* check.
detect_collision_unchecked(m, coll, wild) == coll

\* detect_collision: the broad check, then collide, whose outcome for this pair
\* in this step is the input coll.  body_view.get on a body that has no AABB
\* reads whatever the pool holds there: wild is what the broad check makes of
\* it.
detect_collision(m, coll, wild) ==
    LET offset == VScale(-contact_breaking_threshold, <<1, 1, 1>>)
        aabbA == aabb[m.body[1]]
        aabbB == aabb[m.body[2]]
        check == IF aabbA = NoAABB \/ aabbB = NoAABB THEN wild
                 ELSE intersect(inset(aabbA, offset), aabbB)
    IN  IF check THEN coll ELSE <<>>

\* process_result: the serial pipeline of one manifold.
process_result(s, manifold_entity, res) ==
    prune(process_collision(s, "create", 0, manifold_entity, res),
          "create", 0, manifold_entity)

----------------------------------------------------------------------------
(* narrowphase *)

Pipe(reg) == [cp |-> reg.cp, manifold |-> reg.manifold, next |-> reg.next,
              dirty |-> reg.dirty, cinfo |-> <<>>, dinfo |-> <<>>, rd |-> {}, wr |-> {},
              log |-> <<>>, seen |-> <<>>]

Reg(s) == [cp |-> s.cp, manifold |-> s.manifold, next |-> s.next,
           dirty |-> s.dirty]

\* A faulty variant of parallelizable: one manifold is enough.
parallelizable_nonempty(reg) == Cardinality(DOMAIN reg.manifold) > 0

parallelizable(reg) == Cardinality(DOMAIN reg.manifold) > 1

\* update_contact_manifolds: detect_collision and process_result for each
\* manifold of the view, in order.
RECURSIVE update_contact_manifolds(_, _, _, _, _)
update_contact_manifolds(s, view, colls, wild, i) ==
    IF i >= Len(view) THEN s
    ELSE LET manifold_entity == view[i + 1]
             res == detect_collision(s.manifold[manifold_entity], colls[i + 1],
                                     wild[i + 1])
         IN  update_contact_manifolds(process_result(s, manifold_entity, res),
                                      view, colls, wild, i + 1)

\* narrowphase::update on registry reg, collide returning colls[i + 1] for the
\* manifold of index i.
update(reg, colls, wild) ==
    update_contact_manifolds(Pipe(update_contact_distances(reg)),
                             manifold_view(reg), colls, wild, 0)

\* std::vector::resize(n) of a buffer: the slots it has stay, new ones are empty.
resize(buf, n) == [i \in 1..n |-> IF i <= Len(buf) THEN buf[i] ELSE <<>>]

\* A faulty variant of clear: the buffer keeps its slots.
clear_keeps(buf) == buf

\* std::vector::clear() of a buffer: no slot is left.
clear(buf) == <<>>

\* A faulty variant of worker: the iteration prunes the first manifold of the view
\* instead of its own.
worker_prunes_first(reg, cinfo, dinfo, index, coll, wild) ==
    LET entity == manifold_view(reg)[index + 1]
        m   == reg.manifold[entity]
        s0  == [Pipe(reg) EXCEPT !.cinfo = cinfo, !.dinfo = dinfo,
                   !.rd = {LocManifold(entity), LocAABB(m.body[1]), LocAABB(m.body[2]),
                           LocPose(m.body[1]), LocPose(m.body[2])}]
        s1  == process_collision(s0, "record", index, entity, detect_collision(m, coll, wild))
    IN  prune(s1, "record", index, manifold_view(reg)[1])

\* The body of the parallel_for of update_async, for one index.
worker(reg, cinfo, dinfo, index, coll, wild) ==
    LET entity == manifold_view(reg)[index + 1]
        m   == reg.manifold[entity]
        s0  == [Pipe(reg) EXCEPT !.cinfo = cinfo, !.dinfo = dinfo,
                   !.rd = {LocManifold(entity), LocAABB(m.body[1]), LocAABB(m.body[2]),
                           LocPose(m.body[1]), LocPose(m.body[2])}]
        res == detect_collision(m, coll, wild)
        s1  == process_collision(s0, "record", index, entity, res)
    IN  prune(s1, "record", index, entity)

\* A faulty variant of commit_create: every buffer slot is applied to the
\* manifold the view holds last.
RECURSIVE commit_create_to_last(_, _, _, _, _)
commit_create_to_last(s, view, cinfos, i, j) ==
    IF i >= Len(view) THEN s
    ELSE IF j >= Len(cinfos[i + 1]) THEN commit_create_to_last(s, view, cinfos, i + 1, 0)
    ELSE commit_create_to_last(
            create_contact_point(s, view[Len(view)], cinfos[i + 1][j + 1]),
            view, cinfos, i, j + 1)

\* finish_async_update: the first loop, creating the buffered points.
RECURSIVE commit_create(_, _, _, _, _)
commit_create(s, view, cinfos, i, j) ==
    IF i >= Len(view) THEN s
    ELSE IF j >= Len(cinfos[i + 1]) THEN commit_create(s, view, cinfos, i + 1, 0)
    ELSE commit_create(create_contact_point(s, view[i + 1], cinfos[i + 1][j + 1]),
                       view, cinfos, i, j + 1)

\* finish_async_update: the second loop, destroying the pruned points.
RECURSIVE commit_destroy(_, _, _, _, _)
commit_destroy(s, view, dinfos, i, j) ==
    IF i >= Len(view) THEN s
    ELSE IF j >= Len(dinfos[i + 1]) THEN commit_destroy(s, view, dinfos, i + 1, 0)
    ELSE commit_destroy(destroy_contact_point(s, view[i + 1], dinfos[i + 1][j + 1]),
                        view, dinfos, i, j + 1)

\* A faulty variant of finish_async_update: the commit walks the manifolds from the last
\* index to the first.
finish_async_update_reversed(reg, cinfos, dinfos) ==
    LET view == manifold_view(reg)
        rev(q) == [i \in 1..Len(q) |-> q[Len(q) + 1 - i]]
        s1   == commit_create(Pipe(reg), rev(view), rev(cinfos), 0, 0)
    IN  commit_destroy(s1, rev(view), rev(dinfos), 0, 0)

finish_async_update(reg, cinfos, dinfos) ==
    LET view == manifold_view(reg)
        s1   == commit_create(Pipe(reg), view, cinfos, 0, 0)
    IN  commit_destroy(s1, view, dinfos, 0, 0)

----------------------------------------------------------------------------
(* Inputs *)

Bodies == {1, 2, 3}

Origin == <<0, 0, 0>>

Up == <<0, 1, 0>>

\* Where the integrator may have put a moving body: at rest, lifted by more
\* than the breaking threshold, slid by more than the breaking threshold.
Poses == {Origin, <<0, 3, 0>>, <<3, 0, 0>>}

\* What collide returns for a contact at site p of body b's surface, at signed
\* distance d along normal n, for bodies at posA and posB.
collision_point(p, n, d, posA, posB) ==
    [pivotA |-> VSub(VAdd(VAdd(posB, p), VScale(d, n)), posA),
     pivotB |-> p, normalB |-> n, distance |-> d]

\* The sites collide reports, each with its signed distance: a site within the
\* caching threshold of the first corner, the centre of the square of corners,
\* a site outside the square.
Sites == {<<<<1, 0, 0>>, -1>>, <<<<5, 0, 5>>, 0>>, <<<<20, 0, 0>>, 0>>}

Corners == <<<<0, 0, 0>>, <<10, 0, 0>>, <<10, 0, 10>>, <<0, 0, 10>>>>

SeqsUpTo(S, n) == UNION {[1..k -> S] : k \in 0..n}

\* The outcomes of collide for the manifolds of the view, one per index: the
\* pairs collide at the same sites, or only one of them collides.
Collisions(reg) ==
    LET view == manifold_view(reg)
        At(i, q) == LET m == reg.manifold[view[i]]
                    IN  [k \in 1..Len(q) |->
                            collision_point(q[k][1], Up, q[k][2],
                                            pos[m.body[1]], pos[m.body[2]])]
    IN  {[i \in 1..Len(view) |-> IF i \in on THEN At(i, q) ELSE <<>>] :
            q \in SeqsUpTo(Sites, MaxResult),
            on \in {1..Len(view)} \cup {{i} : i \in 1..Len(view)}}

----------------------------------------------------------------------------
(* island_delta_builder and the island_worker_context that owns one.       *)
(* A container keyed by component id or by entity is a function; a         *)
(* component id is the name of the component type.                         *)

\* The entities, component types and component values the builder is fed.
LocalEntities == {1}

ComponentIds == {"contact_point", "contact_manifold"}

ComponentValues == {1}

\* The number of recording calls the model makes between two finish() calls.
MaxRecorded == 2

\* An empty container.
NoMap == [k \in {} |-> 0]

\* insert or overwrite of one key of a container
map_insert(f, k, v) == [x \in DOMAIN f \cup {k} |-> IF x = k THEN v ELSE f[x]]

\* entity_map::locrem of the worker's entity map: the remote entity of a
\* local one.
locrem(local_entity) == local_entity + 10

\* A default-constructed island_delta, which is also what a moved-from one is.
EmptyDelta ==
    [m_entity_map           |-> NoMap,
     m_created_entities     |-> <<>>,
     m_destroyed_entities   |-> <<>>,
     m_created_components   |-> NoMap,
     m_updated_components   |-> NoMap,
     m_destroyed_components |-> NoMap]

\* island_delta_builder::island_delta_builder
NewBuilder ==
    [m_delta                |-> EmptyDelta,
     m_created_components   |-> NoMap,
     m_updated_components   |-> NoMap,
     m_destroyed_components |-> NoMap]

\* island_delta::prepare_created/updated/destroyed<Component>: an empty
\* container for the component type in the delta.
prepare_created(delta, id) ==
    [delta EXCEPT !.m_created_components = map_insert(@, id, NoMap)]

prepare_updated(delta, id) ==
    [delta EXCEPT !.m_updated_components = map_insert(@, id, NoMap)]

prepare_destroyed(delta, id) ==
    [delta EXCEPT !.m_destroyed_components = map_insert(@, id, {})]

\* island_delta_builder::_created<Component>
_created(b, entity, id, component) ==
    IF id \notin DOMAIN b.m_created_components
    THEN [b EXCEPT !.m_created_components =
                       map_insert(@, id, map_insert(NoMap, entity, component)),
                   !.m_delta = prepare_created(@, id)]
    ELSE LET map == b.m_created_components[id]
         IN  [b EXCEPT !.m_delta = IF DOMAIN map = {} THEN prepare_created(@, id) ELSE @,
                       !.m_created_components[id] = map_insert(map, entity, component)]

\* A faulty variant of _updated: a container an earlier finish() emptied is
\* filled again without being prepared in the current delta.
_updated_unprepared(b, entity, id, component) ==
    IF id \notin DOMAIN b.m_updated_components
    THEN [b EXCEPT !.m_updated_components =
                       map_insert(@, id, map_insert(NoMap, entity, component)),
                   !.m_delta = prepare_updated(@, id)]
    ELSE [b EXCEPT !.m_updated_components[id] = map_insert(@, entity, component)]

\* island_delta_builder::_updated<Component>
_updated(b, entity, id, component) ==
    IF id \notin DOMAIN b.m_updated_components
    THEN [b EXCEPT !.m_updated_components =
                       map_insert(@, id, map_insert(NoMap, entity, component)),
                   !.m_delta = prepare_updated(@, id)]
    ELSE LET map == b.m_updated_components[id]
         IN  [b EXCEPT !.m_delta = IF DOMAIN map = {} THEN prepare_updated(@, id) ELSE @,
                       !.m_updated_components[id] = map_insert(map, entity, component)]

\* island_delta_builder::_destroyed<Component>
_destroyed(b, entity, id) ==
    IF id \notin DOMAIN b.m_destroyed_components
    THEN [b EXCEPT !.m_destroyed_components = map_insert(@, id, {entity}),
                   !.m_delta = prepare_destroyed(@, id)]
    ELSE LET set == b.m_destroyed_components[id]
         IN  [b EXCEPT !.m_delta = IF set = {} THEN prepare_destroyed(@, id) ELSE @,
                       !.m_destroyed_components[id] = set \cup {entity}]

\* island_delta_builder::created(entity)
created(b, entity) ==
    [b EXCEPT !.m_delta.m_created_entities = Append(@, entity)]

\* island_delta_builder::destroyed<>(entity), with no component named
destroyed(b, entity) ==
    [b EXCEPT !.m_delta.m_destroyed_entities = Append(@, entity)]

\* island_delta_builder::insert_entity_mapping
insert_entity_mapping(b, local_entity) ==
    LET remote_entity == locrem(local_entity)
    IN  [b EXCEPT !.m_delta.m_entity_map = map_insert(@, local_entity, remote_entity)]

\* island_delta_builder::empty
empty(b) ==
    IF \/ DOMAIN b.m_delta.m_entity_map # {}
       \/ b.m_delta.m_created_entities # <<>>
       \/ b.m_delta.m_destroyed_entities # <<>>
    THEN FALSE
    ELSE IF \E id \in DOMAIN b.m_created_components :
                DOMAIN b.m_created_components[id] # {}
    THEN FALSE
    ELSE IF \E id \in DOMAIN b.m_updated_components :
                DOMAIN b.m_updated_components[id] # {}
    THEN FALSE
    ELSE IF \E id \in DOMAIN b.m_destroyed_components :
                b.m_destroyed_components[id] # {}
    THEN FALSE
    ELSE TRUE

\* The delta finish() returns: m_delta with the builder's containers loaded
\* into the containers prepared for them.
loaded(b) ==
    [b.m_delta EXCEPT
        !.m_created_components   = [id \in DOMAIN @ |-> b.m_created_components[id]],
        !.m_updated_components   = [id \in DOMAIN @ |-> b.m_updated_components[id]],
        !.m_destroyed_components = [id \in DOMAIN @ |-> b.m_destroyed_components[id]]]

\* A faulty variant of finish: the containers of destroyed components are
\* not cleared.
finish_keeps_destroyed(b) ==
    [delta   |-> loaded(b),
     builder |-> [m_delta                |-> EmptyDelta,
                  m_created_components   |-> [id \in DOMAIN b.m_created_components |-> NoMap],
                  m_updated_components   |-> [id \in DOMAIN b.m_updated_components |-> NoMap],
                  m_destroyed_components |-> b.m_destroyed_components]]

\* island_delta_builder::finish: the delta returned and the builder left
\* behind.  The containers of the builder are cleared, not erased, and
\* m_delta is moved from.
finish(b) ==
    [delta   |-> loaded(b),
     builder |-> [m_delta                |-> EmptyDelta,
                  m_created_components   |-> [id \in DOMAIN b.m_created_components |-> NoMap],
                  m_updated_components   |-> [id \in DOMAIN b.m_updated_components |-> NoMap],
                  m_destroyed_components |-> [id \in DOMAIN b.m_destroyed_components |-> {}]]]

\* What the model remembers of the recording calls: the component changes
\* recorded since the last finish(), whether one of them went into a container
\* an earlier finish() had emptied, and whether that was so for the delta
\* finish() returned last.
NoHistory == [changes |-> {}, refilling |-> FALSE, refilled |-> FALSE]

\* Whether the container a change goes into exists and holds nothing, which
\* is how finish() leaves it.
refills(b, change) ==
    LET id == change[2]
    IN  CASE change[1] = "created" ->
                 /\ id \in DOMAIN b.m_created_components
                 /\ DOMAIN b.m_created_components[id] = {}
          [] change[1] = "updated" ->
                 /\ id \in DOMAIN b.m_updated_components
                 /\ DOMAIN b.m_updated_components[id] = {}
          [] OTHER ->
                 /\ id \in DOMAIN b.m_destroyed_components
                 /\ b.m_destroyed_components[id] = {}

note(h, b, change) ==
    [h EXCEPT !.changes = @ \cup {change},
              !.refilling = @ \/ refills(b, change)]

returned(h) == [changes |-> {}, refilling |-> FALSE, refilled |-> h.refilling]

\* island_worker_context::delta_empty
delta_empty == empty(m_delta_builder)

\* island_worker_context::island_worker_context: a new builder, nothing
\* sent, nothing recorded, the flag clear, a handler connected to both sinks.
InitContext ==
    /\ m_delta_builder = NewBuilder
    /\ sent = EmptyDelta
    /\ recorded = 0
    /\ history = NoHistory
    /\ m_pending_flush = FALSE
    /\ reschedules = 0
    /\ since_set = 0
    /\ alive = TRUE
    /\ sinks = {"island_delta", "island_topology"}
    /\ m_message_queue = <<>>
    /\ invoked = {}

\* The state of the collision phases, which the context does not touch.
collision_vars ==
    <<registry, pos, material, aabb, relations, m_cp_construction_infos,
      m_cp_destruction_infos, pc, result, finished, access, serial_ref,
      step_log, path, steps, observed>>

InitDelta ==
    /\ InitContext
    /\ registry = [cp |-> <<>>, manifold |-> <<>>, next |-> 4, dirty |-> {}]
    /\ pos = [b \in Bodies |-> Origin]
    /\ material = [b \in Bodies |-> TRUE]
    /\ aabb = [b \in Bodies |-> NoAABB]
    /\ relations = <<>>
    /\ m_cp_construction_infos = <<>>
    /\ m_cp_destruction_infos = <<>>
    /\ pc = "idle"
    /\ result = <<>>
    /\ finished = {}
    /\ access = <<>>
    /\ serial_ref = registry
    /\ step_log = <<>>
    /\ path = "none"
    /\ steps = 0
    /\ observed = <<>>

\* created(entity)
CreatedEntity ==
    /\ recorded < MaxRecorded
    /\ \E entity \in LocalEntities :
          m_delta_builder' = created(m_delta_builder, entity)
    /\ UNCHANGED history
    /\ recorded' = recorded + 1
    /\ UNCHANGED <<sent, queue_vars, collision_vars>>

\* created(entity, component)
CreatedComponent ==
    /\ recorded < MaxRecorded
    /\ \E entity \in LocalEntities, id \in ComponentIds, component \in ComponentValues :
          /\ m_delta_builder' = _created(m_delta_builder, entity, id, component)
          /\ history' = note(history, m_delta_builder, <<"created", id, entity>>)
    /\ recorded' = recorded + 1
    /\ UNCHANGED <<sent, queue_vars, collision_vars>>

\* updated(entity, component)
UpdatedComponent ==
    /\ recorded < MaxRecorded
    /\ \E entity \in LocalEntities, id \in ComponentIds, component \in ComponentValues :
          /\ m_delta_builder' = _updated(m_delta_builder, entity, id, component)
          /\ history' = note(history, m_delta_builder, <<"updated", id, entity>>)
    /\ recorded' = recorded + 1
    /\ UNCHANGED <<sent, queue_vars, collision_vars>>

\* destroyed<>(entity)
DestroyedEntity ==
    /\ recorded < MaxRecorded
    /\ \E entity \in LocalEntities :
          m_delta_builder' = destroyed(m_delta_builder, entity)
    /\ UNCHANGED history
    /\ recorded' = recorded + 1
    /\ UNCHANGED <<sent, queue_vars, collision_vars>>

\* destroyed<Component>(entity)
DestroyedComponent ==
    /\ recorded < MaxRecorded
    /\ \E entity \in LocalEntities, id \in ComponentIds :
          /\ m_delta_builder' = _destroyed(m_delta_builder, entity, id)
          /\ history' = note(history, m_delta_builder, <<"destroyed", id, entity>>)
    /\ recorded' = recorded + 1
    /\ UNCHANGED <<sent, queue_vars, collision_vars>>

\* insert_entity_mapping(local_entity)
InsertEntityMapping ==
    /\ recorded < MaxRecorded
    /\ \E entity \in LocalEntities :
          m_delta_builder' = insert_entity_mapping(m_delta_builder, entity)
    /\ UNCHANGED history
    /\ recorded' = recorded + 1
    /\ UNCHANGED <<sent, queue_vars, collision_vars>>

\* finish() called on the builder, the delta dropped
Finish ==
    /\ m_delta_builder' = finish(m_delta_builder).builder
    /\ recorded' = 0
    /\ history' = returned(history)
    /\ UNCHANGED <<sent, queue_vars, collision_vars>>

\* island_worker_context::send_delta
SendDelta ==
    /\ LET r == finish(m_delta_builder)
       IN  /\ sent' = r.delta
           /\ m_delta_builder' = r.builder
    /\ recorded' = 0
    /\ history' = returned(history)
    /\ UNCHANGED <<queue_vars, collision_vars>>

NextDelta ==
    \/ CreatedEntity \/ CreatedComponent \/ UpdatedComponent
    \/ DestroyedEntity \/ DestroyedComponent \/ InsertEntityMapping
    \/ Finish \/ SendDelta

SpecDelta == InitDelta /\ [][NextDelta]_vars

----------------------------------------------------------------------------
(* island_worker_context: flush, and the handlers connected to the sinks   *)
(* of its message queue                                                    *)

\* The reschedules the model lets the worker be asked for.
MaxReschedules == 2

\* The messages the model lets wait in the queue.
MaxQueue == 2

\* The sinks of the message queue the constructor connects a handler to.
Sinks == {"island_delta", "island_topology"}

\* A faulty variant of flush: the flag stays set.
flush_keeps_flag(pending, n) ==
    IF pending
    THEN [m_pending_flush |-> TRUE, reschedules |-> n + 1]
    ELSE [m_pending_flush |-> pending, reschedules |-> n]

\* island_worker_context::flush, on the flag and the count of
\* m_worker->reschedule() calls.
flush(pending, n) ==
    IF pending
    THEN [m_pending_flush |-> FALSE, reschedules |-> n + 1]
    ELSE [m_pending_flush |-> pending, reschedules |-> n]

\* island_worker_context::~island_worker_context, on the connected sinks.
destructor(connected) == connected \ {"island_delta"}

\* Something to send was queued: the flag is set.
SetPendingFlush ==
    /\ alive
    /\ reschedules < MaxReschedules
    /\ m_pending_flush' = TRUE
    /\ since_set' = 0
    /\ UNCHANGED <<reschedules, alive, sinks, m_message_queue, invoked,
                   delta_vars, collision_vars>>

\* island_worker_context::flush
Flush ==
    /\ alive
    /\ reschedules <= MaxReschedules
    /\ LET r == flush(m_pending_flush, reschedules)
       IN  /\ m_pending_flush' = r.m_pending_flush
           /\ reschedules' = r.reschedules
           /\ since_set' = since_set + (r.reschedules - reschedules)
    /\ UNCHANGED <<alive, sinks, m_message_queue, invoked, delta_vars, collision_vars>>

\* The other end of the queue sends a message.
Receive ==
    /\ Len(m_message_queue) < MaxQueue
    /\ \E kind \in Sinks : m_message_queue' = Append(m_message_queue, kind)
    /\ UNCHANGED <<m_pending_flush, reschedules, since_set, alive, sinks, invoked,
                   delta_vars, collision_vars>>

\* m_message_queue.update(), which read_messages calls: every waiting message
\* goes to the handler connected to its sink, if there is one.
ReadMessages ==
    /\ m_message_queue # <<>>
    /\ invoked' = invoked \cup
                    {<<m_message_queue[i], alive>> :
                        i \in {j \in DOMAIN m_message_queue : m_message_queue[j] \in sinks}}
    /\ m_message_queue' = <<>>
    /\ UNCHANGED <<m_pending_flush, reschedules, since_set, alive, sinks,
                   delta_vars, collision_vars>>

\* island_worker_context::~island_worker_context
Destroy ==
    /\ alive
    /\ alive' = FALSE
    /\ sinks' = destructor(sinks)
    /\ UNCHANGED <<m_pending_flush, reschedules, since_set, m_message_queue, invoked,
                   delta_vars, collision_vars>>

NextWorkerContext == SetPendingFlush \/ Flush \/ Receive \/ ReadMessages \/ Destroy

SpecWorkerContext == InitDelta /\ [][NextWorkerContext]_vars

----------------------------------------------------------------------------
(* The narrowphase on a fixed set of manifolds *)

\* A contact point that persisted from an earlier step at corner p, with the
\* impulse the solver accumulated on its rows.
persisted(p, body) ==
    [body |-> body, pivotA |-> p, pivotB |-> p, normalB |-> Up,
     friction |-> material_of(body[1]).friction * material_of(body[2]).friction,
     restitution |-> material_of(body[1]).restitution * material_of(body[2]).restitution,
     lifetime |-> 1, distance |-> 0, con |-> TRUE, impulse |-> 1]

\* Manifold entities 4 (bodies 1, 2) and 5 (bodies 3, 2) holding k1 and k2
\* persisted points at the first corners; contact points are entities 6, 7, ...
InitRegistry(k1, k2) ==
    [cp |-> [e \in 6..(5 + k1 + k2) |->
                IF e <= 5 + k1 THEN persisted(Corners[e - 5], <<1, 2>>)
                ELSE persisted(Corners[e - 5 - k1], <<3, 2>>)],
     manifold |-> [e \in {4, 5} |->
                IF e = 4
                THEN [body |-> <<1, 2>>,
                      point |-> [k \in Slots |-> IF k < k1 THEN 6 + k ELSE Null]]
                ELSE [body |-> <<3, 2>>,
                      point |-> [k \in Slots |-> IF k < k2 THEN 6 + k1 + k ELSE Null]]],
     next |-> 6 + k1 + k2,
     dirty |-> {}]

InitCounts == {0, 1, 3, 4}

\* The registry reg with only its first n manifolds and their contact points.
first_manifolds(reg, n) ==
    LET kept == {e \in DOMAIN reg.manifold : e < 4 + n}
    IN  [reg EXCEPT
            !.manifold = [e \in kept |-> @[e]],
            !.cp = [e \in {c \in DOMAIN @ : \E m \in kept, k \in Slots :
                                                reg.manifold[m].point[k] = c} |-> @[e]]]

BigBox == [min |-> <<-50, -50, -50>>, max |-> <<50, 50, 50>>]

NoAccess == [rd |-> {}, wr |-> {}]

\* What the broad check may make of each manifold of the view when it reads an
\* AABB that is not there; FALSE where both AABBs are there.
Wild(reg) ==
    LET view == manifold_view(reg)
        missing(i) == \E k \in 1..2 : aabb[reg.manifold[view[i]].body[k]] = NoAABB
    IN  {w \in [1..Len(view) -> BOOLEAN] : \A i \in 1..Len(view) : w[i] => missing(i)}

InitNP ==
    /\ \E k1 \in InitCounts, k2 \in InitCounts, n \in 0..2 :
          /\ n < 2 => k2 = 0
          /\ n < 1 => k1 = 0
          /\ registry = first_manifolds(InitRegistry(k1, k2), n)
    /\ \E p1 \in Poses, p3 \in {Origin, <<3, 0, 0>>} :
          pos = [b \in Bodies |-> IF b = 1 THEN p1 ELSE IF b = 3 THEN p3 ELSE Origin]
    /\ material = [b \in Bodies |-> TRUE]
    /\ aabb = [b \in Bodies |-> BigBox]
    /\ relations = <<>>
    /\ m_cp_construction_infos = <<>>
    /\ m_cp_destruction_infos = <<>>
    /\ pc = "idle"
    /\ result = <<>>
    /\ finished = {}
    /\ access = <<>>
    /\ serial_ref = registry
    /\ step_log = <<>>
    /\ path = "none"
    /\ steps = 0
    /\ observed = <<>>
    /\ InitContext

\* narrowphase::update
Update ==
    /\ pc = "idle"
    /\ \E colls \in Collisions(registry), wild \in Wild(registry) :
          LET s == update(registry, colls, wild)
          IN  /\ registry' = Reg(s)
              /\ step_log' = s.log
              /\ result' = colls
    /\ serial_ref' = registry'
    /\ pc' = "done"
    /\ path' = "serial"
    /\ UNCHANGED <<ctx_vars, observed, steps, pos, material, aabb, relations, m_cp_construction_infos,
                   m_cp_destruction_infos, finished, access>>

\* narrowphase::update_async, up to the dispatch of the parallel_for.
UpdateAsync ==
    /\ pc = "idle"
    /\ parallelizable(registry)
    /\ LET n == Len(manifold_view(registry))
       IN  /\ m_cp_construction_infos' = resize(m_cp_construction_infos, n)
           /\ m_cp_destruction_infos' = resize(m_cp_destruction_infos, n)
           /\ access' = [i \in 1..n |-> NoAccess]
    /\ registry' = update_contact_distances(registry)
    /\ \E colls \in Collisions(registry), wild \in Wild(registry) :
          /\ result' = colls
          /\ serial_ref' = Reg(update(registry, colls, wild))
    /\ pc' = "async"
    /\ path' = "parallel"
    /\ finished' = {}
    /\ step_log' = <<>>
    /\ UNCHANGED <<ctx_vars, observed, steps, pos, material, aabb, relations>>

\* narrowphase::update_async where EDYN_ASSERT(parallelizable()) fails: the
\* call ends there, after update_contact_distances.
UpdateAsyncAsserts ==
    /\ pc = "idle"
    /\ ~parallelizable(registry)
    /\ registry' = update_contact_distances(registry)
    /\ pc' = "aborted"
    /\ UNCHANGED <<ctx_vars, observed, steps, pos, material, aabb, relations, m_cp_construction_infos,
                   m_cp_destruction_infos, result, finished, access, serial_ref,
                   step_log, path>>

\* One iteration of the parallel_for, on a worker of the pool.
Worker ==
    /\ pc = "async"
    /\ \E index \in Indices(registry) \ finished, wild \in Wild(registry) :
          LET s == worker(registry, m_cp_construction_infos[index + 1],
                          m_cp_destruction_infos[index + 1], index, result[index + 1],
                          wild[index + 1])
          IN  /\ registry' = Reg(s)
              /\ m_cp_construction_infos' =
                    [m_cp_construction_infos EXCEPT ![index + 1] = s.cinfo]
              /\ m_cp_destruction_infos' =
                    [m_cp_destruction_infos EXCEPT ![index + 1] = s.dinfo]
              /\ access' = [access EXCEPT ![index + 1] = [rd |-> s.rd, wr |-> s.wr]]
              /\ finished' = finished \cup {index}
    /\ UNCHANGED <<ctx_vars, observed, steps, pos, material, aabb, relations, pc, result, serial_ref,
                   step_log, path>>

\* parallel_for_async invokes the completion job once every iteration has run.
Completion ==
    /\ pc = "async"
    /\ finished = Indices(registry)
    /\ pc' = "joined"
    /\ UNCHANGED <<ctx_vars, observed, steps, registry, pos, material, aabb, relations, m_cp_construction_infos,
                   m_cp_destruction_infos, result, finished, access, serial_ref,
                   step_log, path>>

\* narrowphase::finish_async_update, run by the completion job.
FinishAsyncUpdate ==
    /\ pc = "joined"
    /\ LET s == finish_async_update(registry, m_cp_construction_infos,
                                    m_cp_destruction_infos)
       IN  /\ registry' = Reg(s)
           /\ step_log' = s.log
    /\ m_cp_construction_infos' = clear(m_cp_construction_infos)
    /\ m_cp_destruction_infos' = clear(m_cp_destruction_infos)
    /\ pc' = "done"
    /\ UNCHANGED <<ctx_vars, observed, steps, pos, material, aabb, relations, result, finished, access,
                   serial_ref, path>>

NextNP ==
    \/ Update \/ UpdateAsync \/ UpdateAsyncAsserts
    \/ Worker \/ Completion \/ FinishAsyncUpdate

SpecNP == InitNP /\ [][NextNP]_vars

----------------------------------------------------------------------------
(* process_collision on one incoming point *)

\* The normals collide may report: a unit normal, and the zero vector of a
\* degenerate contact.
Normals == {Up, <<0, 0, 0>>}

\* The points collide may report for manifold m.
Incoming(m) ==
    {collision_point(site[1], n, site[2], pos[m.body[1]], pos[m.body[2]]) :
        site \in Sites, n \in Normals}

\* As InitNP, and body 3 may have lost its material since the points of its
\* manifold were created.
InitPC ==
    /\ \E k1 \in InitCounts, k2 \in InitCounts : registry = InitRegistry(k1, k2)
    /\ \E p1 \in Poses, p3 \in {Origin, <<3, 0, 0>>} :
          pos = [b \in Bodies |-> IF b = 1 THEN p1 ELSE IF b = 3 THEN p3 ELSE Origin]
    /\ \E has3 \in BOOLEAN : material = [b \in Bodies |-> b # 3 \/ has3]
    /\ aabb = [b \in Bodies |-> BigBox]
    /\ relations = <<>>
    /\ m_cp_construction_infos = <<>>
    /\ m_cp_destruction_infos = <<>>
    /\ pc = "idle"
    /\ result = <<>>
    /\ finished = {}
    /\ access = <<>>
    /\ serial_ref = registry
    /\ step_log = <<>>
    /\ path = "none"
    /\ steps = 0
    /\ observed = <<>>
    /\ InitContext

\* process_collision as process_result calls it, for the manifold of one index
\* and a collision_result of one point.
ProcessCollision ==
    /\ pc = "idle"
    /\ \E index \in Indices(registry) :
          LET view   == manifold_view(registry)
              entity == view[index + 1]
          IN  \E rp \in Incoming(registry.manifold[entity]) :
                 LET s == process_collision(Pipe(registry), "create", 0, entity, <<rp>>)
                 IN  /\ registry' = Reg(s)
                     /\ step_log' = s.log
                     /\ result' = [i \in 1..Len(view) |->
                                     IF i = index + 1 THEN <<rp>> ELSE <<>>]
    /\ pc' = "processed"
    /\ path' = "serial"
    /\ UNCHANGED <<ctx_vars, observed, steps, pos, material, aabb, relations, m_cp_construction_infos,
                   m_cp_destruction_infos, finished, access, serial_ref>>

NextPC == ProcessCollision

SpecPC == InitPC /\ [][NextPC]_vars

----------------------------------------------------------------------------
(* The next pass over a manifold: the lookups through cp_view *)

\* The points of manifold m that the view of (contact_point, constraint) does
\* not hold: those created without a constraint.
outside_view(reg, m) ==
    {e \in {m.point[k] : k \in Slots} \ {Null} : ~reg.cp[e].con}

\* process_result of the next step, for the manifold of one index and a
\* collision_result of one point.  find_nearest_contact and prune look every
\* point of the manifold up with cp_view.get; for a point the view does not
\* hold that is undefined, and held is what the build makes of it: the
\* lookup fails (FALSE), or the pool of contact_point is read as if the view
\* held the point (TRUE).
ProcessResultAgain ==
    /\ pc = "processed"
    /\ \E index \in Indices(registry), held \in BOOLEAN :
          LET view   == manifold_view(registry)
              entity == view[index + 1]
              m      == registry.manifold[entity]
          IN  \E site \in Sites :
                 LET rp == collision_point(site[1], Up, site[2],
                                           pos[m.body[1]], pos[m.body[2]])
                     s  == process_result(Pipe(registry), entity, <<rp>>)
                 IN  /\ outside_view(registry, m) = {} => held
                     /\ result' = [i \in 1..Len(view) |->
                                     IF i = index + 1 THEN <<rp>> ELSE <<>>]
                     /\ IF held
                        THEN /\ registry' = Reg(s)
                             /\ step_log' = s.log
                             /\ pc' = "done"
                        ELSE /\ pc' = "failed"
                             /\ UNCHANGED <<registry, step_log>>
    /\ UNCHANGED <<ctx_vars, observed, steps, pos, material, aabb, relations,
                   m_cp_construction_infos, m_cp_destruction_infos, finished,
                   access, serial_ref, path>>

NextView == ProcessCollision \/ ProcessResultAgain

SpecView == InitPC /\ [][NextView]_vars

----------------------------------------------------------------------------
(* prune on one manifold *)

\* Where pivotA of a persisted point may lie relative to pivotB once the
\* bodies have moved: in place, lifted by the breaking threshold, lifted past
\* it, slid by the breaking threshold, slid past it.
PruneOffsets == {<<0, 0, 0>>, <<0, 2, 0>>, <<0, 3, 0>>, <<2, 0, 0>>, <<3, 0, 0>>}

\* Manifold 4 with k points, each at one of the offsets.
InitPrune ==
    /\ \E k \in 0..max_contacts :
          LET reg == first_manifolds(InitRegistry(k, 0), 1)
          IN  \E offs \in [DOMAIN reg.cp -> PruneOffsets] :
                 registry = [reg EXCEPT
                               !.cp = [e \in DOMAIN @ |->
                                         [@[e] EXCEPT !.pivotA = VAdd(@, offs[e])]]]
    /\ pos = [b \in Bodies |-> Origin]
    /\ material = [b \in Bodies |-> TRUE]
    /\ aabb = [b \in Bodies |-> BigBox]
    /\ relations = <<>>
    /\ m_cp_construction_infos = <<>>
    /\ m_cp_destruction_infos = <<>>
    /\ pc = "idle"
    /\ result = <<>>
    /\ finished = {}
    /\ access = <<>>
    /\ serial_ref = registry
    /\ step_log = <<>>
    /\ path = "none"
    /\ steps = 0
    /\ observed = <<>>
    /\ InitContext

\* prune as process_result calls it (destroy_contact_point as the callback)
\* or as the worker iteration calls it (the handle recorded in the
\* iteration's destruction_info), for the manifold of index 0.
Prune ==
    /\ pc = "idle"
    /\ \E mode \in {"create", "record"} :
          LET entity == manifold_view(registry)[1]
              s == prune(Pipe(registry), mode, 0, entity)
          IN  /\ registry' = Reg(s)
              /\ step_log' = s.log
              /\ observed' = s.seen
              /\ m_cp_destruction_infos' = <<s.dinfo>>
              /\ path' = IF mode = "create" THEN "serial" ELSE "parallel"
    /\ pc' = "pruned"
    /\ UNCHANGED <<ctx_vars, steps, pos, material, aabb, relations,
                   m_cp_construction_infos, result, finished, access, serial_ref>>

NextPrune == Prune

SpecPrune == InitPrune /\ [][NextPrune]_vars

----------------------------------------------------------------------------
(* find_nearest_contact on one manifold and one incoming point *)

\* Pivots near one another and apart, around the caching threshold.
NearPivots == {<<0, 0, 0>>, <<1, 0, 0>>, <<0, 0, 1>>, <<2, 0, 0>>, <<9, 0, 0>>}

\* The pivots (pivotA, pivotB) of the points a manifold holds.
Placements ==
    {<<<<0, 0, 0>>, <<0, 0, 0>>>>, <<<<1, 0, 0>>, <<9, 0, 0>>>>,
     <<<<9, 0, 0>>, <<0, 0, 1>>>>, <<<<2, 0, 0>>, <<2, 0, 0>>>>}

\* Manifold 4 with k points, each at one of the placements.
InitNearest ==
    /\ \E k \in 0..max_contacts :
          LET reg == first_manifolds(InitRegistry(k, 0), 1)
          IN  \E at \in [DOMAIN reg.cp -> Placements] :
                 registry = [reg EXCEPT
                               !.cp = [e \in DOMAIN @ |->
                                         [@[e] EXCEPT !.pivotA = at[e][1],
                                                      !.pivotB = at[e][2]]]]
    /\ pos = [b \in Bodies |-> Origin]
    /\ material = [b \in Bodies |-> TRUE]
    /\ aabb = [b \in Bodies |-> BigBox]
    /\ relations = <<>>
    /\ m_cp_construction_infos = <<>>
    /\ m_cp_destruction_infos = <<>>
    /\ pc = "idle"
    /\ result = <<>>
    /\ finished = {}
    /\ access = <<>>
    /\ serial_ref = registry
    /\ step_log = <<>>
    /\ path = "none"
    /\ steps = 0
    /\ observed = <<>>
    /\ InitContext

\* find_nearest_contact as process_collision calls it, for the manifold of
\* index 0 and one point of the collision result.
FindNearestContact ==
    /\ pc = "idle"
    /\ \E pA \in NearPivots, pB \in NearPivots :
          LET entity  == manifold_view(registry)[1]
              coll_pt == [pivotA |-> pA, pivotB |-> pB, normalB |-> Up, distance |-> 0]
          IN  /\ result' = <<<<coll_pt>>>>
              /\ observed' = find_nearest_contact(registry.manifold[entity], coll_pt,
                                                  registry.cp)
    /\ pc' = "found"
    /\ UNCHANGED <<ctx_vars, steps, registry, pos, material, aabb, relations,
                   m_cp_construction_infos, m_cp_destruction_infos, finished,
                   access, serial_ref, step_log, path>>

NextNearest == FindNearestContact

SpecNearest == InitNearest /\ [][NextNearest]_vars

----------------------------------------------------------------------------
(* broadphase *)

\* shape.aabb(pos, orn) of the bodies' shape: a box of half extent 5.
shape_aabb(p) == [min |-> VSub(p, <<5, 5, 5>>), max |-> VAdd(p, <<5, 5, 5>>)]

\* The first loop of broadphase::update: the AABB of every body that has one.
refresh_aabbs(boxes) ==
    [b \in DOMAIN boxes |-> IF boxes[b] = NoAABB THEN NoAABB ELSE shape_aabb(pos[b])]

erase(rels, p) == [q \in DOMAIN rels \ {p} |-> rels[q]]

assign(rels, p, ent) == [q \in DOMAIN rels \cup {p} |-> IF q = p THEN ent ELSE rels[q]]

\* A faulty variant of erase_pair: the reversed pair is forgotten.
erase_pair_forward_only(rels, e0, e1) == erase(rels, <<e0, e1>>)

\* The destroy pass erases the pair and the reversed pair.
erase_pair(rels, e0, e1) == erase(erase(rels, <<e0, e1>>), <<e1, e0>>)

\* The create pass stores the pair and the reverse pair.
assign_pair(rels, e0, e1, ent) == assign(assign(rels, <<e0, e1>>, ent), <<e1, e0>>, ent)

\* A faulty variant of separated: the destroy pass tests the AABBs as they
\* are, without the margin.
separated_no_margin(b0, b1) == ~intersect(b0, b1)

\* A faulty variant of separated: the destroy pass inflates by three breaking
\* thresholds.
separated_scale3(b0, b1) ==
    LET offset == VScale(-contact_breaking_threshold * 3, <<1, 1, 1>>)
    IN  ~intersect(inset(b0, offset), inset(b1, offset))

\* The test of the destroy pass on the two AABBs of a relation.
separated(b0, b1) ==
    LET offset == VScale(-contact_breaking_threshold * offset_scale, <<1, 1, 1>>)
    IN  ~intersect(inset(b0, offset), inset(b1, offset))

\* The test of the create pass on two AABBs.
overlapping(b0, b1) ==
    LET offset == VScale(-contact_breaking_threshold, <<1, 1, 1>>)
    IN  intersect(inset(b0, offset), inset(b1, offset))

\* The destroy pass over the relation entities ents[i + 1 ..]; w holds the
\* registry, the pair table, destroy_rel and the log.
RECURSIVE destroy_pass(_, _, _, _)
destroy_pass(w, boxes, ents, i) ==
    IF i >= Len(ents) THEN w
    ELSE LET ent == ents[i + 1]
             rel == w.reg.manifold[ent].body
             p   == <<rel[1], rel[2]>>
             b0  == boxes[rel[1]]
             b1  == boxes[rel[2]]
         IN  IF ~(p \in DOMAIN w.relations) \/ w.relations[p] # ent
             THEN destroy_pass(w, boxes, ents, i + 1)
             ELSE IF b0 # NoAABB /\ b1 # NoAABB /\ separated(b0, b1)
             THEN destroy_pass([w EXCEPT
                                   !.destroy_rel = Append(@, ent),
                                   !.relations = erase_pair(@, rel[1], rel[2])],
                               boxes, ents, i + 1)
             ELSE destroy_pass(w, boxes, ents, i + 1)

\* registry->destroy(ent) for every entity of destroy_rel.
RECURSIVE destroy_relations(_, _)
destroy_relations(w, i) ==
    IF i >= Len(w.destroy_rel) THEN w
    ELSE LET ent == w.destroy_rel[i + 1]
         IN  destroy_relations(
                [w EXCEPT !.reg.manifold = [e \in DOMAIN @ \ {ent} |-> @[e]],
                          !.reg.dirty = drop_dirty(@, ent),
                          !.log = Append(@, <<"destroy_manifold", ent>>)],
                i + 1)

\* A faulty variant of create_pair: the pair table is not consulted.
create_pair_unchecked(w, boxes, e0, e1) ==
    IF overlapping(boxes[e0], boxes[e1])
    THEN LET ent == w.reg.next
         IN  [w EXCEPT
                !.reg.next = @ + 1,
                !.reg.manifold = [e \in DOMAIN @ \cup {ent} |->
                                    IF e = ent
                                    THEN [body |-> <<e0, e1>>, point |-> EmptyPoints]
                                    ELSE @[e]],
                !.relations = assign_pair(@, e0, e1, ent),
                !.log = Append(@, <<"create_manifold", ent>>)]
    ELSE w

\* One pair (e0, e1) of the create pass.
create_pair(w, boxes, e0, e1) ==
    IF overlapping(boxes[e0], boxes[e1]) /\ ~(<<e0, e1>> \in DOMAIN w.relations)
    THEN LET ent == w.reg.next
         IN  [w EXCEPT
                !.reg.next = @ + 1,
                !.reg.manifold = [e \in DOMAIN @ \cup {ent} |->
                                    IF e = ent
                                    THEN [body |-> <<e0, e1>>, point |-> EmptyPoints]
                                    ELSE @[e]],
                !.relations = assign_pair(@, e0, e1, ent),
                !.log = Append(@, <<"create_manifold", ent>>)]
    ELSE w

\* The create pass: it at order[i + 1], it1 at order[j + 1].
RECURSIVE create_pass(_, _, _, _, _)
create_pass(w, boxes, order, i, j) ==
    IF i >= Len(order) THEN w
    ELSE IF j >= Len(order) THEN create_pass(w, boxes, order, i + 1, i + 2)
    ELSE create_pass(create_pair(w, boxes, order[i + 1], order[j + 1]),
                     boxes, order, i, j + 1)

\* broadphase::update; order is the order in which the view of AABB iterates.
broadphase_update(reg, rels, boxes0, order) ==
    LET boxes == refresh_aabbs(boxes0)
        w0 == [reg |-> reg, relations |-> rels, destroy_rel |-> <<>>, log |-> <<>>]
        w1 == destroy_pass(w0, boxes, manifold_view(reg), 0)
        w2 == destroy_relations(w1, 0)
        w3 == create_pass(w2, boxes, order, 0, 1)
    IN  [reg |-> w3.reg, relations |-> w3.relations, aabb |-> boxes, log |-> w3.log]

----------------------------------------------------------------------------
(* The world of three bodies on a line: body 1 at the origin, body 2 to its  *)
(* right, body 3 to its left and touching body 1.  Their boxes have half    *)
(* extent 5, so centres 10 + g apart leave a gap g.                         *)

\* Gaps between body 1 and body 2: touching, inside the window between the two
\* offsets, past the separation offset, past twice the separation offset.
Gaps2 == {0, 3, 5, 9}

\* The orders in which a view may iterate the entities of S.
Orders(S) == {q \in [1..Cardinality(S) -> S] : \A i, j \in DOMAIN q : i # j => q[i] # q[j]}

\* The number of steps of the simulation the model runs.
MaxSteps == 2

InitBP ==
    /\ registry = [cp |-> <<>>, manifold |-> <<>>, next |-> 4, dirty |-> {}]
    /\ pos = [b \in Bodies |-> IF b = 2 THEN <<19, 0, 0>>
                               ELSE IF b = 3 THEN <<-10, 0, 0>> ELSE Origin]
    /\ material = [b \in Bodies |-> TRUE]
    /\ aabb = [b \in Bodies |-> shape_aabb(pos[b])]
    /\ relations = <<>>
    /\ m_cp_construction_infos = <<>>
    /\ m_cp_destruction_infos = <<>>
    /\ pc = "idle"
    /\ result = <<>>
    /\ finished = {}
    /\ access = <<>>
    /\ serial_ref = registry
    /\ step_log = <<>>
    /\ path = "none"
    /\ steps = 0
    /\ observed = <<>>
    /\ InitContext

\* The integrator moves body 2 along the line between two steps.
MoveBody ==
    /\ pc = "idle"
    /\ \E g \in Gaps2 : pos' = [pos EXCEPT ![2] = <<10 + g, 0, 0>>]
    /\ path' = "none"
    /\ UNCHANGED <<ctx_vars, observed, steps, registry, material, aabb, relations, m_cp_construction_infos,
                   m_cp_destruction_infos, pc, result, finished, access,
                   serial_ref, step_log>>

\* The user removes the AABB of a body.
RemoveAABB ==
    /\ pc = "idle"
    /\ \E b \in {3} : /\ aabb[b] # NoAABB
                         /\ aabb' = [aabb EXCEPT ![b] = NoAABB]
    /\ path' = "none"
    /\ UNCHANGED <<ctx_vars, observed, steps, registry, pos, material, relations, m_cp_construction_infos,
                   m_cp_destruction_infos, pc, result, finished, access,
                   serial_ref, step_log>>

\* The user gives a body its AABB back.
AddAABB ==
    /\ pc = "idle"
    /\ \E b \in {3} : /\ aabb[b] = NoAABB
                         /\ aabb' = [aabb EXCEPT ![b] = shape_aabb(pos[b])]
    /\ path' = "none"
    /\ UNCHANGED <<ctx_vars, observed, steps, registry, pos, material, relations, m_cp_construction_infos,
                   m_cp_destruction_infos, pc, result, finished, access,
                   serial_ref, step_log>>

\* broadphase::update
BroadphaseUpdate ==
    /\ pc = "idle"
    /\ steps < MaxSteps
    /\ steps' = steps + 1
    /\ UNCHANGED <<ctx_vars, observed>>
    /\ \E order \in Orders({b \in Bodies : aabb[b] # NoAABB}) :
          LET w == broadphase_update(registry, relations, aabb, order)
          IN  /\ registry' = w.reg
              /\ relations' = w.relations
              /\ aabb' = w.aabb
              /\ step_log' = w.log
    /\ pc' = "broad"
    /\ path' = "none"
    /\ UNCHANGED <<pos, material, m_cp_construction_infos, m_cp_destruction_infos,
                   result, finished, access, serial_ref>>

\* What collide returns in this world: for every pair one point on the line
\* between the bodies, or nothing.
LineCollisions(reg) ==
    LET view == manifold_view(reg)
        At(i) == LET m == reg.manifold[view[i]]
                 IN  <<collision_point(Origin, <<1, 0, 0>>, 0,
                                       pos[m.body[1]], pos[m.body[2]])>>
    IN  {[i \in 1..Len(view) |-> IF hit THEN At(i) ELSE <<>>] : hit \in BOOLEAN}

\* narrowphase::update, after the broadphase.
NarrowphaseUpdate ==
    /\ pc = "broad"
    /\ \E colls \in LineCollisions(registry), wild \in Wild(registry) :
          LET s == update(registry, colls, wild)
          IN  /\ registry' = Reg(s)
              /\ step_log' = s.log
              /\ result' = colls
    /\ pc' = "idle"
    /\ path' = "serial"
    /\ UNCHANGED <<ctx_vars, observed, steps, pos, material, aabb, relations, m_cp_construction_infos,
                   m_cp_destruction_infos, finished, access, serial_ref>>

NextBP == MoveBody \/ RemoveAABB \/ AddAABB \/ BroadphaseUpdate \/ NarrowphaseUpdate

SpecBP == InitBP /\ [][NextBP]_vars

\* The user destroys a manifold entity of the registry.
DestroyManifold ==
    /\ pc = "idle"
    /\ \E ent \in DOMAIN registry.manifold :
          registry' = [registry EXCEPT !.manifold = [e \in DOMAIN @ \ {ent} |-> @[e]],
                                       !.dirty = drop_dirty(@, ent)]
    /\ path' = "none"
    /\ UNCHANGED <<ctx_vars, observed, steps, pos, material, aabb, relations, m_cp_construction_infos,
                   m_cp_destruction_infos, pc, result, finished, access,
                   serial_ref, step_log>>

NextStore == NextBP \/ DestroyManifold

SpecStore == InitBP /\ [][NextStore]_vars

----------------------------------------------------------------------------
(* A run of parallel narrowphase steps on two manifolds *)

\* The sites collide reports in a run of steps, in the order it reports them.
StepSites == <<<<<<5, 0, 5>>, 0>>, <<<<20, 0, 0>>, 0>>, <<<<1, 0, 0>>, -1>>,
               <<<<5, 0, 15>>, 0>>>>

\* The outcomes of collide in a step of the run: every pair collides at the
\* first k sites.
StepCollisions(reg) ==
    LET view == manifold_view(reg)
        At(i, k) == LET m == reg.manifold[view[i]]
                    IN  [j \in 1..k |->
                            collision_point(StepSites[j][1], Up, StepSites[j][2],
                                            pos[m.body[1]], pos[m.body[2]])]
    IN  {[i \in 1..Len(view) |-> At(i, k)] : k \in 0..MaxResult}

\* Manifold 4 holds k1 persisted points and manifold 5 none.
InitAsync ==
    /\ \E k1 \in {0, 3, 4} : registry = InitRegistry(k1, 0)
    /\ \E p1 \in Poses :
          pos = [b \in Bodies |-> IF b = 1 THEN p1 ELSE Origin]
    /\ material = [b \in Bodies |-> TRUE]
    /\ aabb = [b \in Bodies |-> BigBox]
    /\ relations = <<>>
    /\ m_cp_construction_infos = <<>>
    /\ m_cp_destruction_infos = <<>>
    /\ pc = "idle"
    /\ result = <<>>
    /\ finished = {}
    /\ access = <<>>
    /\ serial_ref = registry
    /\ step_log = <<>>
    /\ path = "none"
    /\ steps = 0
    /\ observed = <<>>
    /\ InitContext

\* narrowphase::update_async in a run of steps, up to the dispatch of the
\* parallel_for.
StepUpdateAsync ==
    /\ pc = "idle"
    /\ steps < MaxSteps
    /\ steps' = steps + 1
    /\ parallelizable(registry)
    /\ LET n == Len(manifold_view(registry))
       IN  /\ m_cp_construction_infos' = resize(m_cp_construction_infos, n)
           /\ m_cp_destruction_infos' = resize(m_cp_destruction_infos, n)
           /\ access' = [i \in 1..n |-> NoAccess]
    /\ registry' = update_contact_distances(registry)
    /\ \E colls \in StepCollisions(registry) : result' = colls
    /\ pc' = "async"
    /\ path' = "parallel"
    /\ finished' = {}
    /\ step_log' = <<>>
    /\ UNCHANGED <<ctx_vars, observed, pos, material, aabb, relations, serial_ref>>

\* The integrator moves body 1 or body 3 after the commit of a step.
Integrate ==
    /\ pc = "done"
    /\ \E b \in {1, 3}, p \in Poses : pos' = [pos EXCEPT ![b] = p]
    /\ pc' = "idle"
    /\ UNCHANGED <<ctx_vars, observed, steps, registry, material, aabb, relations,
                   m_cp_construction_infos, m_cp_destruction_infos, result, finished,
                   access, serial_ref, step_log, path>>

NextAsync ==
    \/ StepUpdateAsync \/ Worker \/ Completion \/ FinishAsyncUpdate \/ Integrate

SpecAsync == InitAsync /\ [][NextAsync]_vars

----------------------------------------------------------------------------
(* Properties of the narrowphase step *)

\* What a contact point carries, apart from its handle.
contact_value(c) == <<c.pivotA, c.pivotB, c.normalB, c.distance, c.lifetime>>

\* The values of the points of manifold e of reg, by slot (<<>>: no point).
slot_values(reg, e) ==
    [k \in Slots |-> IF reg.manifold[e].point[k] \in DOMAIN reg.cp
                     THEN contact_value(reg.cp[reg.manifold[e].point[k]])
                     ELSE <<>>]

\* Two registries hold the same manifolds with the same number of points
\* carrying the same values (handles and slot order may differ).
same_contacts(r1, r2) ==
    /\ DOMAIN r1.manifold = DOMAIN r2.manifold
    /\ \A e \in DOMAIN r1.manifold :
          LET v1 == slot_values(r1, e)
              v2 == slot_values(r2, e)
          IN  /\ num_points(r1.manifold[e]) = num_points(r2.manifold[e])
              /\ \A k \in Slots :
                    Cardinality({j \in Slots : v1[j] = v1[k]})
                        = Cardinality({j \in Slots : v2[j] = v1[k]})

\* C1: a step through the parallel path (update_async, the iterations in any
\* order, finish_async_update) leaves every manifold with the same number of
\* contact points carrying the same pivots, normal, distance and lifetime as a
\* step through narrowphase::update from the same state with the same collision
\* results.
C1_ParallelEqualsSerial ==
    (pc = "done" /\ path = "parallel") => same_contacts(registry, serial_ref)

\* The locations iteration i (from 1) may write: its manifold, the contact
\* points and rows its manifold references or referenced until it pruned them,
\* and its two buffer slots.
owned(i) ==
    LET e   == manifold_view(registry)[i]
        pts == {registry.manifold[e].point[k] : k \in Slots}
                  \cup {m_cp_destruction_infos[i][k] : k \in DOMAIN m_cp_destruction_infos[i]}
    IN  {LocManifold(e), LocNew(i - 1), LocDestroyed(i - 1)}
            \cup {LocCp(c) : c \in pts \ {Null}} \cup {LocRow(c) : c \in pts \ {Null}}

\* C2: iteration i of the parallel_for writes only manifold i, the contact
\* points and constraint rows manifold i references, and the buffer slots i;
\* for two iterations i # j, iteration i writes no location that iteration j
\* reads or writes, whatever the order they ran in.
C2_DisjointAccess ==
    pc \in {"async", "joined"} =>
        /\ \A i \in DOMAIN access : access[i].wr \subseteq owned(i)
        /\ \A i \in DOMAIN access, j \in DOMAIN access :
              i # j => access[i].wr \cap (access[j].rd \cup access[j].wr) = {}

\* C2 witness: every iteration has run, and two of them each merged into or
\* replaced a contact point, pruned their manifold and filled their buffer slots.
C2_Witness ==
    /\ pc = "joined"
    /\ \A i \in DOMAIN access :
          /\ \E L \in access[i].wr : L[1] = "contact_point"
          /\ \E L \in access[i].wr : L[1] = "contact_manifold"
          /\ \E L \in access[i].wr : L[1] = "new_points"
          /\ \E L \in access[i].wr : L[1] = "destroyed_points"

\* C3: from the dispatch of the parallel_for until the completion job runs, no
\* step creates or destroys an entity of the registry.
C3_NoEntityChangeInRegion ==
    [][pc = "async" =>
          /\ DOMAIN registry'.cp = DOMAIN registry.cp
          /\ DOMAIN registry'.manifold = DOMAIN registry.manifold
          /\ registry'.next = registry.next]_vars

\* C3 witness: the iterations are over with unmatched points and pruned handles
\* recorded in the buffers, and the pruned contact points still live.
C3_Witness ==
    /\ pc = "joined"
    /\ \E i \in DOMAIN m_cp_construction_infos : m_cp_construction_infos[i] # <<>>
    /\ \E i \in DOMAIN m_cp_destruction_infos :
          /\ m_cp_destruction_infos[i] # <<>>
          /\ \A k \in DOMAIN m_cp_destruction_infos[i] :
                m_cp_destruction_infos[i][k] \in DOMAIN registry.cp

\* The index in the view of the manifold a log entry is about.
index_of(view, e) == CHOOSE i \in 1..Len(view) : view[i] = e

\* The log applies creations, then destructions, each in view order.
log_in_index_order(view, log) ==
    \A p \in DOMAIN log, q \in DOMAIN log :
        p < q =>
            /\ ~(log[p][1] = "destroy" /\ log[q][1] = "create")
            /\ log[p][1] = log[q][1] => index_of(view, log[p][2]) <= index_of(view, log[q][2])

\* C4: the commit runs only once all iterations have finished and the
\* completion job was invoked; it applies the buffered creations and the
\* buffered destructions in manifold index order, and leaves both buffers empty.
C4_CommitAfterAllInOrder ==
    /\ pc = "joined" => finished = Indices(registry)
    /\ (pc = "done" /\ path = "parallel") =>
          /\ finished = Indices(registry)
          /\ m_cp_construction_infos = <<>>
          /\ m_cp_destruction_infos = <<>>
          /\ log_in_index_order(manifold_view(registry), step_log)

\* C4 witness: a commit that created points for two manifolds and destroyed
\* points of two manifolds.
C4_Witness ==
    /\ pc = "done" /\ path = "parallel"
    /\ \A e \in DOMAIN registry.manifold :
          /\ \E p \in DOMAIN step_log : step_log[p][1] = "create" /\ step_log[p][2] = e
          /\ \E p \in DOMAIN step_log : step_log[p][1] = "destroy" /\ step_log[p][2] = e

\* The slots of manifold m: [0, num_points) hold pairwise distinct handles of
\* live contact points, the others the sentinel.
manifold_ok(reg, m) ==
    LET n == num_points(m)
    IN  /\ 0 <= n /\ n <= max_contacts
        /\ \A k \in Slots : k < n => m.point[k] \in DOMAIN reg.cp
        /\ \A k \in Slots : k >= n => m.point[k] = Null
        /\ \A j \in Slots, k \in Slots :
              (j < n /\ k < n /\ j # k) => m.point[j] # m.point[k]

\* C5: after every completed narrowphase step, serial or parallel, the slots
\* [0, num_points) of every manifold hold distinct live contact points and the
\* slots [num_points, max_contacts) the sentinel.
C5_SlotsDenseDistinctLive ==
    pc = "done" => \A e \in DOMAIN registry.manifold :
                      manifold_ok(registry, registry.manifold[e])

\* C5 witness: a completed step that created a point and pruned a point of the
\* same manifold, which still holds points.
C5_Witness ==
    /\ pc = "done"
    /\ \E e \in DOMAIN registry.manifold :
          /\ \E p \in DOMAIN step_log : step_log[p][1] = "create" /\ step_log[p][2] = e
          /\ \E p \in DOMAIN step_log : step_log[p][1] = "destroy" /\ step_log[p][2] = e
          /\ num_points(registry.manifold[e]) \in 1..(max_contacts - 1)

----------------------------------------------------------------------------
(* Properties of the broadphase *)

\* The slots of live manifolds that reference entity e.
references(reg, e) ==
    {mk \in (DOMAIN reg.manifold) \X Slots : reg.manifold[mk[1]].point[mk[2]] = e}

\* C6: after every completed step (broadphase update, then narrowphase step) a
\* contact point is live iff exactly one slot of exactly one manifold references
\* it: every live contact point is referenced by exactly one slot, and every
\* slot that is not empty references a live contact point.
C6_LiveIffReferencedOnce ==
    (pc = "idle" /\ path = "serial") =>
        /\ \A e \in DOMAIN registry.cp : Cardinality(references(registry, e)) = 1
        /\ \A m \in DOMAIN registry.manifold, k \in Slots :
              registry.manifold[m].point[k] # Null =>
                  registry.manifold[m].point[k] \in DOMAIN registry.cp

\* C7: in every state the pair table is symmetric: (a, b) is in it iff (b, a)
\* is, and both map to the same manifold entity.
C7_PairTableSymmetric ==
    \A p \in DOMAIN relations :
        /\ <<p[2], p[1]>> \in DOMAIN relations
        /\ relations[<<p[2], p[1]>>] = relations[p]

\* C7 witness: an update destroyed one relation and erased its pair while
\* another pair stays in the table.
C7_Witness ==
    /\ pc = "broad"
    /\ \E i \in DOMAIN step_log : step_log[i][1] = "destroy_manifold"
    /\ <<1, 3>> \in DOMAIN relations
    /\ ~(<<1, 2>> \in DOMAIN relations)

\* C8: after every broadphase update, with AABB moves and removals and manifold
\* entities destroyed in between, every live manifold has its body pair in the
\* pair table in both orderings, mapped to it and to it only, and every entry
\* of the pair table maps to a live manifold.
C8_ManifoldsMatchPairTable ==
    pc = "broad" =>
        /\ \A m \in DOMAIN registry.manifold :
              LET b == registry.manifold[m].body
              IN  {p \in DOMAIN relations : relations[p] = m}
                      = {<<b[1], b[2]>>, <<b[2], b[1]>>}
        /\ \A p \in DOMAIN relations : relations[p] \in DOMAIN registry.manifold

\* C9: after a broadphase update no pair with a body that has no AABB is left
\* in the pair table, and no manifold of such a pair is left alive.
C9_MissingAABBRemovesPair ==
    pc = "broad" =>
        /\ \A p \in DOMAIN relations : aabb[p[1]] # NoAABB /\ aabb[p[2]] # NoAABB
        /\ \A m \in DOMAIN registry.manifold :
              \A k \in 1..2 : aabb[registry.manifold[m].body[k]] # NoAABB

\* The separation of two AABBs: the largest gap along an axis (negative when
\* they overlap along every axis).
gap(b0, b1) ==
    LET along(k) == Max2(b0.min[k] - b1.max[k], b1.min[k] - b0.max[k])
    IN  Max2(along(1), Max2(along(2), along(3)))

SEPARATION_OFFSET == offset_scale * contact_breaking_threshold

\* After a broadphase update no pair whose two AABBs are more than d apart is
\* left in the pair table, and no manifold of such a pair is left alive.
destroyed_beyond(d) ==
    pc = "broad" =>
        /\ \A p \in DOMAIN relations :
              (aabb[p[1]] # NoAABB /\ aabb[p[2]] # NoAABB)
                  => gap(aabb[p[1]], aabb[p[2]]) <= d
        /\ \A m \in DOMAIN registry.manifold :
              LET b == registry.manifold[m].body
              IN  (aabb[b[1]] # NoAABB /\ aabb[b[2]] # NoAABB)
                      => gap(aabb[b[1]], aabb[b[2]]) <= d

\* C10, as stated: an update that runs while the AABBs of a tracked pair are
\* separated by a gap above SEPARATION_OFFSET destroys the manifold of the pair
\* and removes both orderings from the pair table.
C10_DestroyedBeyondSeparationOffset == destroyed_beyond(SEPARATION_OFFSET)

\* C10, amended: an update that runs while the AABBs of a tracked pair, both
\* present, are separated by a gap above twice SEPARATION_OFFSET destroys the
\* manifold of the pair and removes both orderings from the pair table.
C10_DestroyedBeyondTwiceSeparationOffset == destroyed_beyond(2 * SEPARATION_OFFSET)

\* C10 witness: bodies 1 and 2 were tracked, are now more than twice
\* SEPARATION_OFFSET apart, and the update destroyed their manifold and erased
\* their pair.
C10_Witness ==
    /\ pc = "broad"
    /\ gap(aabb[1], aabb[2]) > 2 * SEPARATION_OFFSET
    /\ \E i \in DOMAIN step_log : step_log[i][1] = "destroy_manifold"
    /\ ~(<<1, 2>> \in DOMAIN relations) /\ ~(<<2, 1>> \in DOMAIN relations)

BREAK_OFFSET == contact_breaking_threshold

\* C11: a broadphase::update that runs while a pair of the table, created by the
\* broadphase, has its AABBs at a gap g with BREAK_OFFSET < g < SEPARATION_OFFSET
\* keeps the pair: its manifold entity stays alive and both entries of the pair
\* table stay as they are.
C11_KeptInsideHysteresisWindow ==
    [][(pc = "idle" /\ pc' = "broad") =>
          \A p \in DOMAIN relations :
              (/\ relations[p] \in DOMAIN registry.manifold
               /\ aabb'[p[1]] # NoAABB /\ aabb'[p[2]] # NoAABB
               /\ gap(aabb'[p[1]], aabb'[p[2]]) > BREAK_OFFSET
               /\ gap(aabb'[p[1]], aabb'[p[2]]) < SEPARATION_OFFSET)
              => /\ relations[p] \in DOMAIN registry'.manifold
                 /\ p \in DOMAIN relations' /\ relations'[p] = relations[p]
                 /\ <<p[2], p[1]>> \in DOMAIN relations'
                 /\ relations'[<<p[2], p[1]>>] = relations[p]]_vars

\* C11 witness: the second update ran with bodies 1 and 2 inside the window,
\* and their pair, created by the first update, is in the table with the
\* manifold it had.
C11_Witness ==
    /\ pc = "broad" /\ steps = 2
    /\ gap(aabb[1], aabb[2]) > BREAK_OFFSET
    /\ gap(aabb[1], aabb[2]) < SEPARATION_OFFSET
    /\ <<1, 2>> \in DOMAIN relations
    /\ relations[<<1, 2>>] \in DOMAIN registry.manifold
    /\ \A i \in DOMAIN step_log : step_log[i][2] # relations[<<1, 2>>]

\* C12: when the destroy pass of broadphase::update destroys a manifold, every
\* contact point its slots referenced is destroyed in the same update.
C12_DestroyCascadesToContactPoints ==
    [][(pc = "idle" /\ pc' = "broad") =>
          \A m \in DOMAIN registry.manifold \ DOMAIN registry'.manifold :
              \A k \in Slots :
                  ~(registry.manifold[m].point[k] \in DOMAIN registry'.cp)]_vars

----------------------------------------------------------------------------
(* Properties of process_collision on one incoming point *)

\* The contact points held by manifold m of reg that are within the caching
\* threshold of rp, by pivotA or by pivotB.
matching(reg, m, rp) ==
    {e \in {m.point[k] : k \in {j \in Slots : j < num_points(m)}} :
        \/ length_sqr(VSub(rp.pivotA, reg.cp[e].pivotA))
              < contact_caching_threshold * contact_caching_threshold
        \/ length_sqr(VSub(rp.pivotB, reg.cp[e].pivotB))
              < contact_caching_threshold * contact_caching_threshold}

\* Contact point e of the registry carries the geometry of rp after the step.
takes(e, rp) ==
    /\ registry'.cp[e].pivotA = rp.pivotA
    /\ registry'.cp[e].pivotB = rp.pivotB
    /\ registry'.cp[e].normalB = rp.normalB
    /\ registry'.cp[e].distance = rp.distance

\* The step creates and destroys no entity and leaves every manifold as it is.
same_entities ==
    /\ registry'.manifold = registry.manifold
    /\ DOMAIN registry'.cp = DOMAIN registry.cp
    /\ registry'.next = registry.next

\* P(entity, rp) holds for the manifold entity and the incoming point of a step
\* of process_collision.
on_processed(P(_, _)) ==
    (pc = "idle" /\ pc' = "processed") =>
        \A i \in DOMAIN result' :
            result'[i] # <<>> => P(manifold_view(registry)[i], result'[i][1])

\* C13: an incoming point that matches an existing contact point is merged into
\* one: that point takes the incoming pivots, normal and distance, its lifetime
\* grows by one, the impulse of its rows stays, no other point changes, and the
\* slots of the manifold and the entities stay as they are.
C13_MergeKeepsImpulse ==
    [][on_processed(LAMBDA entity, rp :
          LET m == registry.manifold[entity]
          IN  matching(registry, m, rp) # {} =>
                /\ same_entities
                /\ \E e \in matching(registry, m, rp) :
                      /\ takes(e, rp)
                      /\ registry'.cp[e].lifetime = registry.cp[e].lifetime + 1
                      /\ registry'.cp[e].impulse = registry.cp[e].impulse
                      /\ \A o \in DOMAIN registry.cp \ {e} :
                            registry'.cp[o] = registry.cp[o])]_vars

\* C13 witness: a point that had accumulated impulse was merged: it is one
\* step older and carries the incoming pivot.
C13_Witness ==
    /\ pc = "processed"
    /\ \E e \in DOMAIN registry.cp :
          /\ registry.cp[e].lifetime = 2
          /\ registry.cp[e].impulse = 1
          /\ registry.cp[e].pivotB = <<1, 0, 0>>

\* The index the insertion policy gives for rp on manifold m of reg.
policy_index(reg, m, rp) ==
    LET n == num_points(m)
        pivots    == [k \in Slots |-> IF k < n THEN reg.cp[m.point[k]].pivotB
                                      ELSE <<0, 0, 0>>]
        distances == [k \in Slots |-> IF k < n THEN reg.cp[m.point[k]].distance ELSE 0]
    IN  insert_index(pivots, distances, n, rp.pivotB, rp.distance)

\* C14: an incoming point that matches no existing point and for which the
\* insertion policy gives an index below num_points replaces the point of that
\* slot: the point keeps its entity, takes the incoming pivots, normal and
\* distance, has lifetime 0 and no impulse on its rows; the slots of the
\* manifold, the entities and every other point stay as they are.
C14_ReplacementResetsPoint ==
    [][on_processed(LAMBDA entity, rp :
          LET m   == registry.manifold[entity]
              idx == policy_index(registry, m, rp)
          IN  (matching(registry, m, rp) = {} /\ idx < num_points(m)) =>
                LET e == m.point[idx]
                IN  /\ same_entities
                    /\ takes(e, rp)
                    /\ registry'.cp[e].lifetime = 0
                    /\ registry'.cp[e].impulse = 0
                    /\ \A o \in DOMAIN registry.cp \ {e} :
                          registry'.cp[o] = registry.cp[o])]_vars

\* C14 witness: a full manifold, no point created, and one of its points is
\* new-born in its old slot with the incoming pivot and no impulse.
C14_Witness ==
    /\ pc = "processed"
    /\ step_log = <<>>
    /\ \E m \in DOMAIN registry.manifold :
          /\ num_points(registry.manifold[m]) = max_contacts
          /\ \E k \in Slots :
                LET c == registry.cp[registry.manifold[m].point[k]]
                IN  c.lifetime = 0 /\ c.impulse = 0 /\ c.pivotB = <<20, 0, 0>>

\* C16: an incoming point whose normalB has length zero is discarded: the
\* registry is after the step as it was before.
C16_ZeroNormalDiscarded ==
    [][on_processed(LAMBDA entity, rp :
          length_sqr(rp.normalB) = 0 => registry' = registry)]_vars

\* C19: a contact point created by the step has a contact constraint iff both
\* bodies of its manifold carry a material; without constraint its friction
\* and restitution are 0.
C19_ConstraintIffBothMaterials ==
    [][\A e \in DOMAIN registry'.cp \ DOMAIN registry.cp :
          LET c == registry'.cp[e]
          IN  /\ c.con <=> (material[c.body[1]] /\ material[c.body[2]])
              /\ ~c.con => (c.friction = 0 /\ c.restitution = 0)]_vars

\* C19 witness: a contact point created for bodies 3 and 2 while body 3 has no
\* material: no constraint, friction 0, restitution 0.
C19_Witness ==
    /\ pc = "processed"
    /\ ~material[3]
    /\ \E i \in DOMAIN step_log :
          /\ step_log[i][1] = "create"
          /\ LET c == registry.cp[step_log[i][3]]
             IN  c.body = <<3, 2>> /\ ~c.con /\ c.friction = 0 /\ c.restitution = 0

\* C17: parallelizable() is true exactly when the registry holds more than one
\* manifold; the parallel path runs only then, and update_async called with
\* fewer stops at its assertion with no buffer resized and no iteration run.
C17_ParallelOnlyAboveOneManifold ==
    /\ parallelizable(registry) <=> Cardinality(DOMAIN registry.manifold) > 1
    /\ (pc \in {"async", "joined"} \/ path = "parallel") =>
          Cardinality(DOMAIN registry.manifold) > 1
    /\ pc = "aborted" =>
          /\ Cardinality(DOMAIN registry.manifold) <= 1
          /\ finished = {} /\ access = <<>> /\ path = "none"
          /\ m_cp_construction_infos = <<>> /\ m_cp_destruction_infos = <<>>

\* C17 witness: update_async was called with one manifold, holding points, and
\* stopped at the assertion.
C17_Witness ==
    /\ pc = "aborted"
    /\ Cardinality(DOMAIN registry.manifold) = 1
    /\ registry.cp # <<>>

\* The broad check of detect_collision fails for manifold m: both AABBs are
\* there and the first, inflated by BREAK_OFFSET, does not meet the second.
broad_check_fails(m) ==
    /\ aabb[m.body[1]] # NoAABB /\ aabb[m.body[2]] # NoAABB
    /\ ~intersect(inset(aabb[m.body[1]], VScale(-BREAK_OFFSET, <<1, 1, 1>>)),
                  aabb[m.body[2]])

\* C18: in a narrowphase step, a manifold whose broad check fails gets an
\* empty result: it stays alive, no point is created in it or merged, and a
\* point of it is removed only if the prune predicate holds for it.
C18_FailedBroadCheckOnlyPrunes ==
    [][(pc = "broad" /\ pc' = "idle") =>
          \A e \in DOMAIN registry.manifold :
              LET m == registry.manifold[e]
              IN  broad_check_fails(m) =>
                    /\ e \in DOMAIN registry'.manifold
                    /\ \A i \in DOMAIN step_log' :
                          ~(step_log'[i][1] = "create" /\ step_log'[i][2] = e)
                    /\ \A k \in Slots :
                          LET c == m.point[k]
                          IN  c \in DOMAIN registry.cp =>
                                \/ separating(registry.cp[c], pos[m.body[1]], pos[m.body[2]])
                                \/ /\ c \in DOMAIN registry'.cp
                                   /\ registry'.cp[c] = update_contact_distances(registry).cp[c]
                                   /\ \E j \in Slots : registry'.manifold[e].point[j] = c]_vars

\* C18 witness: after a step in which collide had a point for every pair, a
\* manifold whose broad check fails still holds the point it had, and no point
\* was created in it.
C18_Witness ==
    /\ pc = "idle" /\ path = "serial"
    /\ \E i \in DOMAIN result :
          LET e == manifold_view(registry)[i]
          IN  /\ result[i] # <<>>
              /\ broad_check_fails(registry.manifold[e])
              /\ num_points(registry.manifold[e]) = 1
              /\ \A j \in DOMAIN step_log : step_log[j][2] # e

----------------------------------------------------------------------------
(* Dirty marks of a narrowphase step *)

\* Entity e carries a dirty mark for component kind comp.
marked(e, comp) == \E d \in registry.dirty : d[1] = e /\ d[3] = comp

\* C15: every creation, merge or replacement of a contact point and every
\* change of the slots of a manifold by a narrowphase step, serial or parallel,
\* leaves the entity marked dirty for the component that changed.  A step
\* starts with every contact point at lifetime 1 and nothing marked, so after
\* it a point whose lifetime is not 1 was created, merged or replaced by it,
\* and a manifold named in the log had a slot filled or emptied.
C15_ChangesMarkedDirty ==
    pc = "done" =>
        /\ \A e \in DOMAIN registry.cp :
              registry.cp[e].lifetime # 1 => marked(e, "contact_point")
        /\ \A i \in DOMAIN step_log : marked(step_log[i][2], "contact_manifold")


----------------------------------------------------------------------------
(* Properties of the island_delta_builder *)

\* C20: after any sequence of created, updated, destroyed,
\* insert_entity_mapping and finish calls, empty() (and so delta_empty() of
\* the context) is true exactly when nothing has been recorded since the
\* last finish(); in particular it is true right after finish() and right
\* after send_delta().
C20_EmptyIffNothingRecorded == delta_empty <=> recorded = 0

\* send_delta has sent a delta with created, updated and destroyed
\* components, or with entities and a mapping, and nothing has been recorded
\* since: the builder still holds the cleared containers.
C20_Witness ==
    /\ recorded = 0
    /\ \/ /\ sent.m_created_entities # <<>>
          /\ DOMAIN sent.m_entity_map # {}
       \/ /\ DOMAIN sent.m_updated_components # {}
          /\ DOMAIN sent.m_destroyed_components # {}
    /\ DOMAIN m_delta_builder.m_created_components # {}
    /\ DOMAIN m_delta_builder.m_destroyed_components # {}

----------------------------------------------------------------------------
(* Properties of the create pass of the broadphase *)

\* The manifolds of reg on the unordered pair {e0, e1}.
manifolds_of(reg, e0, e1) ==
    {m \in DOMAIN reg.manifold :
        {reg.manifold[m].body[1], reg.manifold[m].body[2]} = {e0, e1}}

in_table(rels, e0, e1) == <<e0, e1>> \in DOMAIN rels \/ <<e1, e0>> \in DOMAIN rels

\* C21: in a broadphase::update, a pair of entities with AABBs whose AABBs,
\* each inflated by BREAK_OFFSET, intersect and that is not in the pair table
\* gets exactly one new manifold, registered under both orderings; a pair that
\* is in the pair table under either ordering gets none; and after the update
\* no two live manifolds are on the same unordered pair, whatever the order in
\* which the view iterates the entities in this update and in the ones before.
C21_CreatePassOneManifoldPerPair ==
    [][(pc = "idle" /\ pc' = "broad") =>
          /\ \A e0 \in Bodies, e1 \in Bodies :
                e0 < e1 =>
                  LET new == manifolds_of(registry', e0, e1) \ DOMAIN registry.manifold
                  IN  /\ (/\ aabb'[e0] # NoAABB /\ aabb'[e1] # NoAABB
                          /\ overlapping(aabb'[e0], aabb'[e1])
                          /\ ~in_table(relations, e0, e1))
                         => /\ Cardinality(new) = 1
                            /\ <<e0, e1>> \in DOMAIN relations'
                            /\ <<e1, e0>> \in DOMAIN relations'
                            /\ relations'[<<e0, e1>>] \in new
                            /\ relations'[<<e1, e0>>] \in new
                      /\ in_table(relations, e0, e1) => new = {}
                      /\ Cardinality(manifolds_of(registry', e0, e1)) <= 1]_vars

\* C21 witness: the second update has run, a pair whose manifold the first
\* update created under the reversed order of its two entities overlaps, and
\* the second update created no manifold for it.
C21_Witness ==
    /\ pc = "broad" /\ steps = 2
    /\ \E m \in DOMAIN registry.manifold :
          LET e0 == registry.manifold[m].body[1]
              e1 == registry.manifold[m].body[2]
          IN  /\ e0 > e1
              /\ aabb[e0] # NoAABB /\ aabb[e1] # NoAABB
              /\ overlapping(aabb[e0], aabb[e1])
              /\ relations[<<e1, e0>>] = m
              /\ \A i \in DOMAIN step_log : step_log[i][2] # m

----------------------------------------------------------------------------
(* Properties of prune *)

\* The test of the contact-breaking rule on contact point c: the normal
\* separation dn exceeds CONTACT_BREAKING_THRESHOLD, or the squared tangential
\* separation exceeds its square.
breaks(c, posA, posB) ==
    LET d  == VSub(VAdd(posA, c.pivotA), VAdd(posB, c.pivotB))
        dn == dot(d, c.normalB)
        dp == VSub(d, VScale(dn, c.normalB))
    IN  ~(dn <= contact_breaking_threshold
          /\ length_sqr(dp) <= contact_breaking_threshold * contact_breaking_threshold)

\* How many entries of sequence q equal x.
occurrences(q, x) == Cardinality({i \in DOMAIN q : q[i] = x})

\* C22: after prune has run on a manifold, a point that was in it is still
\* referenced iff dn <= CONTACT_BREAKING_THRESHOLD and the squared tangential
\* separation <= CONTACT_BREAKING_THRESHOLD^2; each failing point is handed to
\* the destroy callback exactly once and no other point is; each point is
\* evaluated exactly once; and the slots [0, num_points) stay dense.
C22_PruneKeepsExactlyClosePoints ==
    [][(pc = "idle" /\ pc' = "pruned") =>
          LET entity == manifold_view(registry)[1]
              m      == registry.manifold[entity]
              m2     == registry'.manifold[entity]
              before == {m.point[k] : k \in Slots} \ {Null}
              after  == {m2.point[k] : k \in Slots} \ {Null}
              n      == Cardinality(after)
              gone(e) == breaks(registry.cp[e], pos[m.body[1]], pos[m.body[2]])
              handed(e) ==
                  IF path' = "serial"
                  THEN occurrences(step_log', <<"destroy", entity, e>>)
                  ELSE occurrences(m_cp_destruction_infos'[1], e)
          IN  /\ after \subseteq before
              /\ \A e \in before : (e \in after) <=> ~gone(e)
              /\ \A e \in before : handed(e) = IF gone(e) THEN 1 ELSE 0
              /\ path' = "serial" => \A e \in before : gone(e) <=> e \notin DOMAIN registry'.cp
              /\ \A e \in before : occurrences(observed', e) = 1
              /\ Len(observed') = Cardinality(before)
              /\ \A k \in Slots : (k < n) <=> (m2.point[k] # Null)
              /\ \A j \in Slots, k \in Slots :
                    (j < n /\ k < n /\ j # k) => m2.point[j] # m2.point[k]]_vars

\* C22 witness: prune has removed a point of a lower slot and kept the point
\* of the last slot, which swap-with-last moved down (the point entity 6 + k
\* starts in slot k).
C22_Witness ==
    /\ pc = "pruned"
    /\ Len(observed) >= 3
    /\ \E k \in Slots :
          /\ registry.manifold[4].point[k] # Null
          /\ registry.manifold[4].point[k] > 6 + k
    /\ \E k \in Slots : registry.manifold[4].point[k] = Null /\ k < Len(observed)

----------------------------------------------------------------------------
(* Properties of find_nearest_contact *)

CACHING_THRESHOLD == contact_caching_threshold

\* C23: find_nearest_contact returns the lowest index among the points that
\* minimise min(|rp.pivotA - cp.pivotA|^2, |rp.pivotB - cp.pivotB|^2) when
\* that minimum is strictly below CACHING_THRESHOLD^2, and num_points when no
\* point is strictly below the threshold in either space, an empty manifold
\* included.
C23_NearestBelowThresholdOrNone ==
    (pc = "found") =>
        LET m  == registry.manifold[manifold_view(registry)[1]]
            rp == result[1][1]
            n  == num_points(m)
            D(i) == LET c  == registry.cp[m.point[i]]
                        dA == length_sqr(VSub(rp.pivotA, c.pivotA))
                        dB == length_sqr(VSub(rp.pivotB, c.pivotB))
                    IN  IF dA < dB THEN dA ELSE dB
            below == {i \in 0..(n - 1) : D(i) < CACHING_THRESHOLD * CACHING_THRESHOLD}
        IN  IF below = {}
            THEN observed = n
            ELSE /\ observed \in below
                 /\ \A i \in 0..(n - 1) : D(observed) <= D(i)
                 /\ \A i \in 0..(n - 1) : D(i) = D(observed) => observed <= i

\* C23 witness: two points of the manifold are at the same least distance
\* below the threshold and the lower index was returned, with a point of a
\* higher index nearer in one space than the first is in the other.
C23_Witness ==
    /\ pc = "found"
    /\ LET m  == registry.manifold[manifold_view(registry)[1]]
           rp == result[1][1]
           n  == num_points(m)
           D(i) == LET c  == registry.cp[m.point[i]]
                       dA == length_sqr(VSub(rp.pivotA, c.pivotA))
                       dB == length_sqr(VSub(rp.pivotB, c.pivotB))
                   IN  IF dA < dB THEN dA ELSE dB
       IN  /\ n >= 3
           /\ observed < n
           /\ \E i \in 0..(n - 1) : i > observed /\ D(i) = D(observed)
           /\ \E i \in 0..(n - 1) : i < observed /\ D(i) > D(observed)

----------------------------------------------------------------------------
(* Properties of the island_worker_context *)

\* C24: the flag is clear in a new context; flush() reschedules the worker
\* exactly when the flag is set and clears the flag in the same call, a
\* flush() with the flag clear changes nothing, and between two settings of
\* the flag at most one reschedule is issued.
C24_FlushReschedulesOncePerSetting ==
    /\ ~m_pending_flush /\ reschedules = 0
    /\ [][/\ reschedules' # reschedules =>
                /\ m_pending_flush /\ ~m_pending_flush'
                /\ reschedules' = reschedules + 1
          /\ (m_pending_flush /\ ~m_pending_flush') => reschedules' = reschedules + 1
          /\ since_set' <= 1]_vars

\* C24 witness: the flag was set twice and each setting was flushed.
C24_Witness ==
    /\ reschedules = 2
    /\ since_set = 1
    /\ ~m_pending_flush

\* C30: once the context has been destroyed no handler of it is connected to
\* a sink of the message queue, and no message delivered afterwards invokes a
\* handler of it.
C30_NoHandlerAfterDestruction ==
    /\ ~alive => sinks = {}
    /\ \A kind \in Sinks : <<kind, FALSE>> \notin invoked

----------------------------------------------------------------------------
(* Properties of the commit of the parallel path *)

\* The entries of sequence q.
Range(q) == {q[i] : i \in DOMAIN q}

\* C25: from the dispatch to the end of the commit the manifold view maps the
\* same index to the same manifold, and the commit applies buffer slot i to
\* the manifold iteration i processed: a point it creates in a manifold comes
\* from the construction slot of that manifold's index, and a point it
\* destroys for a manifold is in the destruction slot of that index.
C25_CommitSlotMatchesManifold ==
    [][/\ pc \in {"async", "joined"} =>
             manifold_view(registry') = manifold_view(registry)
       /\ (pc = "joined" /\ pc' = "done") =>
             LET view == manifold_view(registry)
             IN  \A n \in DOMAIN step_log' :
                    LET entry == step_log'[n]
                        i     == index_of(view, entry[2])
                    IN  /\ LocManifold(entry[2]) \in access[i].rd
                        /\ entry[1] = "create" =>
                              \E rp \in Range(m_cp_construction_infos[i]) :
                                  /\ registry'.cp[entry[3]].pivotA = rp.pivotA
                                  /\ registry'.cp[entry[3]].pivotB = rp.pivotB
                        /\ entry[1] = "destroy" =>
                              entry[3] \in Range(m_cp_destruction_infos[i])]_vars

\* C25 witness: a commit that created, for each of two manifolds whose buffer
\* slots held different points, a point of its own slot, and destroyed a
\* point for one of them.
C25_Witness ==
    /\ pc = "done" /\ path = "parallel"
    /\ pos[1] # pos[3]
    /\ \A e \in DOMAIN registry.manifold :
          \E p \in DOMAIN step_log : step_log[p][1] = "create" /\ step_log[p][2] = e
    /\ \E p \in DOMAIN step_log : step_log[p][1] = "destroy"
    /\ Cardinality(DOMAIN registry.manifold) = 2

\* C26: no buffered new contact is lost at commit: after finish_async_update
\* every manifold has the points it had at the end of its worker iteration
\* plus the points that iteration recorded in its construction slot.
C26_NoBufferedPointLost ==
    [][(pc = "joined" /\ pc' = "done") =>
          LET view == manifold_view(registry)
          IN  \A i \in DOMAIN view :
                 num_points(registry'.manifold[view[i]])
                    = num_points(registry.manifold[view[i]])
                         + Len(m_cp_construction_infos[i])]_vars

----------------------------------------------------------------------------
(* Properties of the lookups through the view of (contact_point, constraint) *)

\* C27: merge, replacement and prune reach every contact point a slot
\* references, also in a manifold whose bodies do not both carry a material:
\* the lookup of a slot's point through the view never fails.
C27_LookupNeverFails == pc # "failed"

----------------------------------------------------------------------------
(* Properties of the lifetime of persisted points *)

\* C28: within one narrowphase step, serial or parallel, the lifetime of a
\* contact point that persists grows by at most one: at most one incoming
\* point of a collision result is merged into a given contact point.
C28_LifetimeGrowsByAtMostOne ==
    [][\A e \in DOMAIN registry.cp \cap DOMAIN registry'.cp :
          registry'.cp[e].lifetime <= registry.cp[e].lifetime + 1]_vars

----------------------------------------------------------------------------
(* Properties of the deltas finish() returns *)

\* The component changes a delta holds.
contents(delta) ==
    {c \in {"created"} \X ComponentIds \X LocalEntities :
        /\ c[2] \in DOMAIN delta.m_created_components
        /\ c[3] \in DOMAIN delta.m_created_components[c[2]]}
    \cup {c \in {"updated"} \X ComponentIds \X LocalEntities :
             /\ c[2] \in DOMAIN delta.m_updated_components
             /\ c[3] \in DOMAIN delta.m_updated_components[c[2]]}
    \cup {c \in {"destroyed"} \X ComponentIds \X LocalEntities :
             /\ c[2] \in DOMAIN delta.m_destroyed_components
             /\ c[3] \in delta.m_destroyed_components[c[2]]}

\* C29: the delta the next finish() returns holds every component change
\* recorded since the finish() before it and no change recorded earlier, for
\* any interleaving of recordings and finish() calls, a component type
\* recorded again after a finish() emptied its container included.
C29_DeltaHoldsChangesSinceLastFinish ==
    [][SendDelta => contents(sent') = history.changes]_vars

\* C29 witness: send_delta has sent a delta with a change of a component type
\* whose container an earlier finish() had emptied.
C29_Witness ==
    /\ recorded = 0
    /\ history.refilled
    /\ contents(sent) # {}

----------------------------------------------------------------------------
(* Properties of the buffers over a run of parallel steps *)

\* C31: in a run of steps where every update_async is followed by its
\* finish_async_update, the buffers hold no slot between two steps and every
\* slot is empty at the dispatch; a worker iteration finds its two slots with
\* count 0 and leaves at most result.num_points new points and at most the
\* manifold's num_points destroyed handles in them, never more than
\* max_contacts; the commit leaves nothing recorded to be applied again.
C31_SlotsStartEmptyAndStayBounded ==
    /\ pc \in {"idle", "done"} /\ m_cp_construction_infos = <<>>
                               /\ m_cp_destruction_infos = <<>>
    /\ [][/\ (pc # "async" /\ pc' = "async") =>
                \A i \in DOMAIN m_cp_construction_infos' :
                    /\ m_cp_construction_infos'[i] = <<>>
                    /\ m_cp_destruction_infos'[i] = <<>>
          /\ \A index \in finished' \ finished :
                LET m == registry.manifold[manifold_view(registry)[index + 1]]
                IN  /\ Len(m_cp_construction_infos[index + 1]) = 0
                    /\ Len(m_cp_destruction_infos[index + 1]) = 0
                    /\ Len(m_cp_construction_infos'[index + 1]) <= Len(result[index + 1])
                    /\ Len(m_cp_destruction_infos'[index + 1]) <= num_points(m)
                    /\ Len(m_cp_construction_infos'[index + 1]) <= max_contacts
                    /\ Len(m_cp_destruction_infos'[index + 1]) <= max_contacts
          /\ pc' \in {"idle", "done"} =>
                /\ m_cp_construction_infos' = <<>>
                /\ m_cp_destruction_infos' = <<>>]_vars

\* C31 witness: in the second step of a run the iteration of manifold 5 has
\* recorded new points, and manifold 5 holds points the commit of the first
\* step created from what that step recorded.
C31_Witness ==
    /\ steps = 2
    /\ pc = "async"
    /\ 1 \in finished
    /\ num_points(registry.manifold[5]) > 0
    /\ Len(m_cp_construction_infos[2]) > 0

====
